---------------------------- MODULE Spec2Model ----------------------------
(***************************************************************************)
(* A model of eolearn.core: the feature taxonomy (constants.py), the typed *)
(* feature dictionaries and the EOPatch container (eodata.py).             *)
(*                                                                         *)
(* Values are records with a "tag" field.  Objects that the program tells  *)
(* apart by identity carry an "id".  A FeatureIO placeholder is a          *)
(* reference [tag |-> "FeatureIO", ref |-> k] into the heap of FeatureIO   *)
(* objects, because its memo (loaded_value) is mutable and shared by every *)
(* slot that holds the same object.                                        *)
(*                                                                         *)
(* Feature names are sequences of one-character strings, so that           *)
(* _check_feature_name can walk over the characters as the code does.      *)
(***************************************************************************)
EXTENDS Integers, Sequences, FiniteSets, TLC

VARIABLES
    fdict,      \* Spec: the _FeatureDict under test
    heap,       \* the FeatureIO objects created so far (index = identity)
    nextId,     \* the identity the next created object gets
    last,       \* what the last operation was given and what it answered
    slot_calls, \* Spec: collaborator calls made by the reads of each entry
    patches,    \* SpecPatch: the EOPatch objects created so far
    merge_in,   \* SpecMerge: the EOPatches handed to EOPatch.merge
    merge_op,   \* SpecMerge: time_dependent_op
    merge_out,  \* SpecMerge: what EOPatch.merge answered
    executor    \* SpecLoad: the thread of EOPatch.load and its ThreadPoolExecutor

vars ==
    <<fdict, heap, nextId, last, slot_calls, patches, merge_in, merge_op, merge_out,
      executor>>

(***************************************************************************)
(* Bounds of the model.                                                    *)
(***************************************************************************)
MaxIO == 1          \* FeatureIO placeholders created in one run
MaxCalls == 2       \* collaborator calls made in one run
MaxFrames == 2      \* SpecMerge: time frames of one EOPatch
MaxStamps == 3      \* SpecConsolidate: timestamps of the EOPatch

None == [tag |-> "None"]

(***************************************************************************)
(* constants.py: FeatureType and its predicates.                           *)
(***************************************************************************)
FeatureType ==
    {"data", "mask", "scalar", "label", "vector", "data_timeless",
     "mask_timeless", "scalar_timeless", "label_timeless", "vector_timeless",
     "meta_info", "bbox", "timestamps"}

is_spatial(ft) ==
    ft \in {"data", "mask", "vector", "data_timeless", "mask_timeless", "vector_timeless"}

is_temporal(ft) ==
    ft \in {"data", "mask", "scalar", "label", "vector", "timestamps"}

is_meta(ft) == ft \in {"meta_info", "bbox", "timestamps"}

is_timeless(ft) == ~(is_temporal(ft) \/ is_meta(ft))

is_discrete_LabelOnly(ft) == ft \in {"label", "label_timeless"}

is_discrete(ft) == ft \in {"mask", "mask_timeless", "label", "label_timeless"}

is_vector(ft) == ft \in {"vector", "vector_timeless"}

is_array(ft) ==
    ft \in {"data", "mask", "scalar", "label",
            "data_timeless", "mask_timeless", "scalar_timeless", "label_timeless"}

\* FeatureType.ndim with the timeless kinds given their temporal rank.
ndim_NoTimeless(ft) ==
    IF is_array(ft)
    THEN CASE ft = "data" -> 4
           [] ft = "mask" -> 4
           [] ft = "scalar" -> 2
           [] ft = "label" -> 2
           [] ft = "data_timeless" -> 4
           [] ft = "mask_timeless" -> 4
           [] ft = "scalar_timeless" -> 2
           [] ft = "label_timeless" -> 2
    ELSE -1

\* FeatureType.ndim; -1 stands for Python's None.
ndim(ft) ==
    IF is_array(ft)
    THEN CASE ft = "data" -> 4
           [] ft = "mask" -> 4
           [] ft = "scalar" -> 2
           [] ft = "label" -> 2
           [] ft = "data_timeless" -> 3
           [] ft = "mask_timeless" -> 3
           [] ft = "scalar_timeless" -> 1
           [] ft = "label_timeless" -> 1
    ELSE -1

(***************************************************************************)
(* Values.                                                                 *)
(***************************************************************************)
DTypes == {"int64", "bool", "float64"}

\* utils.common.is_discrete_type: integer or boolean element type.
is_discrete_type(dtype) == dtype \in {"int64", "bool"}

Ndims == 0 .. 5

ndarray(id, nd, dtype) == [tag |-> "ndarray", id |-> id, ndim |-> nd, dtype |-> dtype]

GeoDataFrame(id, ts) == [tag |-> "GeoDataFrame", id |-> id, has_timestamp |-> ts]

GeoSeries(id) == [tag |-> "GeoSeries", id |-> id]

Blob(id) == [tag |-> "object", id |-> id]

FeatureIORef(k) == [tag |-> "FeatureIO", ref |-> k]

isFeatureIO(v) == v.tag = "FeatureIO"

\* Identities: <<"new", n>> is the n-th object a caller built (n = 0 where a
\* specification does not tell the caller's objects apart), <<"loaded", k>>
\* the object that FeatureIO k read from the backing store.
NewId(n) == <<"new", n>>

LoadedId(k) == <<"loaded", k>>

\* The values a caller can build with identity id.
RealizedValues(id) ==
    {ndarray(id, nd, dt) : nd \in Ndims, dt \in DTypes}
        \cup {GeoDataFrame(id, ts) : ts \in BOOLEAN}
        \cup {GeoSeries(id), Blob(id)}

\* What the backing store may hold for a descriptor: decoded arrays, tables
\* and blobs.
StoredValues(id) ==
    {ndarray(id, nd, dt) : nd \in Ndims, dt \in DTypes}
        \cup {GeoDataFrame(id, ts) : ts \in BOOLEAN}
        \cup {Blob(id)}

\* Of these, per feature type: a value the type accepts and values it rejects
\* (a rank too many, a float array), kept few to bound the FeatureIO heap.
StoredInputs(ft, id) ==
    IF is_array(ft)
    THEN {ndarray(id, ndim(ft), "int64"), ndarray(id, ndim(ft), "float64"),
          ndarray(id, ndim(ft) + 1, "int64")}
    ELSE IF is_vector(ft)
    THEN {GeoDataFrame(id, TRUE), GeoDataFrame(id, FALSE)}
    ELSE {Blob(id), ndarray(id, 1, "float64")}

(***************************************************************************)
(* Feature names.                                                          *)
(***************************************************************************)
FORBIDDEN_CHARS == {".", "/", "\\", "|", ";", ":", "\n", "\t"}

NameInputs ==
    {<<>>, <<"a">>, <<"b">>}
        \cup {<<c>> : c \in FORBIDDEN_CHARS}
        \cup {<<"a", "/">>, <<".", "b">>, <<"a", "\n", "b">>}

(***************************************************************************)
(* Python dict, as the sequence of its (name, value) items in insertion    *)
(* order.                                                                  *)
(***************************************************************************)
DictHas(items, name) == \E i \in 1 .. Len(items) : items[i].name = name

DictIndex(items, name) == CHOOSE i \in 1 .. Len(items) : items[i].name = name

DictGet(items, name) == items[DictIndex(items, name)].value

DictSet(items, name, value) ==
    IF DictHas(items, name)
    THEN [items EXCEPT ![DictIndex(items, name)].value = value]
    ELSE Append(items, [name |-> name, value |-> value])

DictDel(items, name) ==
    LET i == DictIndex(items, name)
    IN  [j \in 1 .. Len(items) - 1 |-> IF j < i THEN items[j] ELSE items[j + 1]]

DictNames(items) == {items[i].name : i \in 1 .. Len(items)}

\* A local variable: the value of an expression under the name that the
\* statements after the assignment know it by.
With(value, Rest(_)) == Rest(value)


(***************************************************************************)
(* What an operation answers: exc is "none" or the exception raised, why   *)
(* tells which check raised it.                                            *)
(***************************************************************************)
Returned(value, nid) == [exc |-> "none", why |-> "", value |-> value, nid |-> nid]

Raised(exc, why, nid) == [exc |-> exc, why |-> why, value |-> None, nid |-> nid]

(***************************************************************************)
(* eodata.py: _FeatureDict and its three specialisations.  A dictionary is *)
(* [tag, cls, feature_type, ndim, items]; ndim is the attribute that       *)
(* _FeatureDictNumpy.__init__ sets before any item is stored.              *)
(***************************************************************************)
\* _check_feature_name without the loop over the characters.
check_feature_name_EmptyOnly(name) ==
    IF name = <<>> THEN "empty" ELSE "ok"

\* _FeatureDict._check_feature_name: "ok", or the reason of the ValueError.
\* (Names are strings throughout the model.)
check_feature_name(name) ==
    IF \E i \in 1 .. Len(name) : name[i] \in FORBIDDEN_CHARS
    THEN "illegal_char"
    ELSE IF name = <<>> THEN "empty" ELSE "ok"

\* _parse_feature_value that takes every array.
FeatureDictNumpy_parse_feature_value_AnyArray(self, value, nid) ==
    IF value.tag # "ndarray"
    THEN Raised("ValueError", "not_ndarray", nid)
    ELSE Returned(value, nid)

\* _FeatureDictNumpy._parse_feature_value
FeatureDictNumpy_parse_feature_value(self, value, nid) ==
    IF value.tag # "ndarray"
    THEN Raised("ValueError", "not_ndarray", nid)
    ELSE IF value.ndim # self.ndim
    THEN Raised("ValueError", "ndim", nid)
    ELSE IF is_discrete(self.feature_type) /\ ~is_discrete_type(value.dtype)
    THEN Raised("ValueError", "dtype", nid)
    ELSE Returned(value, nid)

\* _FeatureDictGeoDf._parse_feature_value: a GeoSeries becomes a new
\* GeoDataFrame, which has no TIMESTAMP column.
FeatureDictGeoDf_parse_feature_value(self, value, nid) ==
    LET conv == IF value.tag = "GeoSeries" THEN GeoDataFrame(NewId(nid), FALSE) ELSE value
        nid2 == IF value.tag = "GeoSeries" THEN nid + 1 ELSE nid
    IN  IF conv.tag = "GeoDataFrame"
        THEN IF self.feature_type = "vector" /\ ~conv.has_timestamp
             THEN Raised("ValueError", "timestamp_column", nid2)
             ELSE Returned(conv, nid2)
        ELSE Raised("ValueError", "not_geodataframe", nid2)

\* _FeatureDictJson._parse_feature_value
FeatureDictJson_parse_feature_value(self, value, nid) == Returned(value, nid)

\* The dispatch of the abstract method _parse_feature_value.
parse_feature_value(self, value, nid) ==
    CASE self.cls = "_FeatureDictNumpy" -> FeatureDictNumpy_parse_feature_value(self, value, nid)
      [] self.cls = "_FeatureDictGeoDf" -> FeatureDictGeoDf_parse_feature_value(self, value, nid)
      [] self.cls = "_FeatureDictJson" -> FeatureDictJson_parse_feature_value(self, value, nid)

SetResult(exc, why, self, nid) == [exc |-> exc, why |-> why, self |-> self, nid |-> nid]

\* __setitem__ that stores the parsed value before it checks the name.
FeatureDict_setitem_StoreFirst(self, feature_name, value, nid) ==
    With(IF isFeatureIO(value)
         THEN Returned(value, nid)
         ELSE parse_feature_value(self, value, nid), LAMBDA parsed :
    With(check_feature_name(feature_name), LAMBDA named :
        IF parsed.exc # "none"
        THEN SetResult(parsed.exc, parsed.why, self, parsed.nid)
        ELSE IF named # "ok"
        THEN SetResult("ValueError", named,
                       [self EXCEPT !.items = DictSet(@, feature_name, parsed.value)],
                       parsed.nid)
        ELSE SetResult("none", "",
                       [self EXCEPT !.items = DictSet(@, feature_name, parsed.value)],
                       parsed.nid)))

\* _FeatureDict.__setitem__: the value is parsed first (a FeatureIO is
\* not), then the name is checked, then the item is stored.
FeatureDict_setitem(self, feature_name, value, nid) ==
    With(IF isFeatureIO(value)
         THEN Returned(value, nid)
         ELSE parse_feature_value(self, value, nid), LAMBDA parsed :
    With(check_feature_name(feature_name), LAMBDA named :
        IF parsed.exc # "none"
        THEN SetResult(parsed.exc, parsed.why, self, parsed.nid)
        ELSE IF named # "ok"
        THEN SetResult("ValueError", named, self, parsed.nid)
        ELSE SetResult("none", "",
                       [self EXCEPT !.items = DictSet(@, feature_name, parsed.value)],
                       parsed.nid)))

\* _create_feature_dict (of an empty mapping) and the constructors'
\* checks; ndim is None (-1) unless the class is _FeatureDictNumpy.
create_feature_dict(feature_type) ==
    [tag |-> "_FeatureDict",
     cls |-> IF is_vector(feature_type) THEN "_FeatureDictGeoDf"
             ELSE IF feature_type = "meta_info" THEN "_FeatureDictJson"
             ELSE "_FeatureDictNumpy",
     feature_type |-> feature_type,
     ndim |-> ndim(feature_type),
     items |-> <<>>]

(***************************************************************************)
(* FeatureIO (eodata_io.py): the placeholder.  A heap cell is              *)
(* [filesystem, stored, loaded_value, calls, okcalls]: the handle of the   *)
(* backing store, what the store holds for the descriptor, the memo, and   *)
(* how often the collaborator was invoked through this object (and how     *)
(* often it answered).                                                     *)
(***************************************************************************)
NewFeatureIO(filesystem, stored) ==
    [filesystem |-> filesystem, stored |-> stored, loaded_value |-> None,
     calls |-> 0, okcalls |-> 0]

LoadResult(exc, value, hp, called) ==
    [exc |-> exc, value |-> value, heap |-> hp, called |-> called]

\* FeatureIO.load: the memo is returned if there is one; otherwise the
\* backing store is read, which fails (store_ok = FALSE) or yields a new
\* object that is memoized.
FeatureIO_load(hp, ref, store_ok) ==
    IF hp[ref].loaded_value # None
    THEN LoadResult("none", hp[ref].loaded_value, hp, 0)
    ELSE IF ~store_ok
    THEN LoadResult("OSError", None, [hp EXCEPT ![ref].calls = @ + 1], 1)
    ELSE LET obj == IF "id" \in DOMAIN hp[ref].stored
                    THEN [hp[ref].stored EXCEPT !.id = LoadedId(ref)]
                    ELSE hp[ref].stored
         IN  LoadResult("none", obj,
                        [hp EXCEPT ![ref].calls = @ + 1,
                                   ![ref].okcalls = @ + 1,
                                   ![ref].loaded_value = obj],
                        1)

GetResult(exc, why, value, self, hp, nid, called) ==
    [exc |-> exc, why |-> why, value |-> value, self |-> self, heap |-> hp,
     nid |-> nid, called |-> called]

\* __getitem__ that resolves the placeholder even when load is false.
FeatureDict_getitem_AlwaysLoad(self, hp, feature_name, load, store_ok, nid) ==
    IF ~DictHas(self.items, feature_name)
    THEN GetResult("KeyError", "missing", None, self, hp, nid, 0)
    ELSE With(DictGet(self.items, feature_name), LAMBDA value :
        IF isFeatureIO(value)
        THEN With(FeatureIO_load(hp, value.ref, store_ok), LAMBDA ld :
            IF ld.exc # "none"
            THEN GetResult(ld.exc, "load", None, self, ld.heap, nid, ld.called)
            ELSE With(FeatureDict_setitem(self, feature_name, ld.value, nid), LAMBDA st :
                IF st.exc # "none"
                THEN GetResult(st.exc, st.why, None, self, ld.heap, st.nid, ld.called)
                ELSE GetResult("none", "", ld.value, st.self, ld.heap, st.nid, ld.called)))
        ELSE GetResult("none", "", value, self, hp, nid, 0))

\* __getitem__ that returns the loaded value without storing it.
FeatureDict_getitem_NoMemo(self, hp, feature_name, load, store_ok, nid) ==
    IF ~DictHas(self.items, feature_name)
    THEN GetResult("KeyError", "missing", None, self, hp, nid, 0)
    ELSE With(DictGet(self.items, feature_name), LAMBDA value :
        IF isFeatureIO(value) /\ load
        THEN With(FeatureIO_load(hp, value.ref, store_ok), LAMBDA ld :
            IF ld.exc # "none"
            THEN GetResult(ld.exc, "load", None, self, ld.heap, nid, ld.called)
            ELSE GetResult("none", "", ld.value, self, ld.heap, nid, ld.called))
        ELSE GetResult("none", "", value, self, hp, nid, 0))

\* __getitem__ that answers None when the load fails.
FeatureDict_getitem_Swallowing(self, hp, feature_name, load, store_ok, nid) ==
    IF ~DictHas(self.items, feature_name)
    THEN GetResult("KeyError", "missing", None, self, hp, nid, 0)
    ELSE With(DictGet(self.items, feature_name), LAMBDA value :
        IF isFeatureIO(value) /\ load
        THEN With(FeatureIO_load(hp, value.ref, store_ok), LAMBDA ld :
            IF ld.exc # "none"
            THEN GetResult("none", "", None, self, ld.heap, nid, ld.called)
            ELSE With(FeatureDict_setitem(self, feature_name, ld.value, nid), LAMBDA st :
                IF st.exc # "none"
                THEN GetResult(st.exc, st.why, None, self, ld.heap, st.nid, ld.called)
                ELSE GetResult("none", "", ld.value, st.self, ld.heap, st.nid, ld.called)))
        ELSE GetResult("none", "", value, self, hp, nid, 0))

\* _FeatureDict.__getitem__(feature_name, load): a missing name is a
\* KeyError; a FeatureIO is loaded when load is true and the result is stored
\* through __setitem__, which parses it; the value is returned.
FeatureDict_getitem(self, hp, feature_name, load, store_ok, nid) ==
    IF ~DictHas(self.items, feature_name)
    THEN GetResult("KeyError", "missing", None, self, hp, nid, 0)
    ELSE With(DictGet(self.items, feature_name), LAMBDA value :
        IF isFeatureIO(value) /\ load
        THEN With(FeatureIO_load(hp, value.ref, store_ok), LAMBDA ld :
            IF ld.exc # "none"
            THEN GetResult(ld.exc, "load", None, self, ld.heap, nid, ld.called)
            ELSE With(FeatureDict_setitem(self, feature_name, ld.value, nid), LAMBDA st :
                IF st.exc # "none"
                THEN GetResult(st.exc, st.why, None, self, ld.heap, st.nid, ld.called)
                ELSE GetResult("none", "", ld.value, st.self, ld.heap, st.nid, ld.called)))
        ELSE GetResult("none", "", value, self, hp, nid, 0))



(***************************************************************************)
(* The typed collection on its own: one feature dictionary under           *)
(* insertions and reads.  The caller's objects are not told apart here     *)
(* (identity NewId(0)); nextId stays 0.                                    *)
(***************************************************************************)
DictFeatureTypes == FeatureType \ {"bbox", "timestamps"}

\* An array kind, a discrete array kind, the vector kind that asks for a
\* TIMESTAMP column and the metadata kind: one of each class and check.
LazyFeatureTypes == {"data", "label_timeless", "vector", "meta_info"}

GetNames == {<<"a">>, <<"b">>}

NoMerge == [exc |-> "idle"]

\* No EOPatch.load is under way.
NoExecutor == [pc |-> "idle"]

Last(op, name, arg, load, exc, why, ret, called) ==
    [op |-> op, name |-> name, arg |-> arg, load |-> load, exc |-> exc,
     why |-> why, ret |-> ret, called |-> called]

Idle == Last("init", <<>>, None, FALSE, "none", "", None, 0)

InitDict(types) ==
    /\ fdict \in {create_feature_dict(ft) : ft \in types}
    /\ heap = <<>>
    /\ nextId = 0
    /\ last = Idle
    /\ slot_calls = [name \in GetNames |-> 0]
    /\ patches = <<>>
    /\ merge_in = <<>>
    /\ merge_op = "None"
    /\ merge_out = NoMerge
    /\ executor = NoExecutor

\* fdict[name] = value; hp is the heap with the value's FeatureIO in it.
\* last notes the name (Spec) or the sort of the value (SpecInsert).
DoInsert(name, value, hp, noted_name, noted_arg) ==
    \E st \in {FeatureDict_setitem(fdict, name, value, 0)} :
        /\ fdict' = st.self
        /\ heap' = IF st.exc = "none" THEN hp ELSE heap
        /\ last' = Last("insert", noted_name, noted_arg, FALSE, st.exc, st.why, None, 0)
        /\ slot_calls' = IF st.exc = "none" /\ name \in GetNames
                         THEN [slot_calls EXCEPT ![name] = 0]
                         ELSE slot_calls
        /\ UNCHANGED <<nextId, patches, merge_in, merge_op, merge_out, executor>>

Sort(value) == [tag |-> value.tag]

\* Insertion of a new, unresolved FeatureIO.
InsertNewFeatureIO ==
    /\ Len(heap) < MaxIO
    /\ \E name \in GetNames, stored \in StoredInputs(fdict.feature_type, NewId(0)) :
           DoInsert(name, FeatureIORef(Len(heap) + 1),
                    Append(heap, NewFeatureIO(Len(heap) + 1, stored)), name, None)

\* Insertion of a FeatureIO that already exists (resolved or not).
InsertOldFeatureIO ==
    \E name \in GetNames, k \in 1 .. Len(heap) :
        DoInsert(name, FeatureIORef(k), heap, name, None)

\* Insertion of a realized value that the feature type may accept.
InsertStored ==
    \E name \in GetNames, value \in StoredInputs(fdict.feature_type, NewId(0)) :
        DoInsert(name, value, heap, name, None)

RECURSIVE CallsUpTo(_, _)
CallsUpTo(hp, k) == IF k = 0 THEN 0 ELSE hp[k].calls + CallsUpTo(hp, k - 1)

\* The collaborator calls made so far.
TotalCalls(hp) == CallsUpTo(hp, Len(hp))

\* fdict.__getitem__(name, load): the backing store answers or fails.
Get ==
    \E name \in GetNames, load \in BOOLEAN, store_ok \in BOOLEAN :
        \E gt \in {FeatureDict_getitem(fdict, heap, name, load, store_ok, 0)} :
            /\ TotalCalls(gt.heap) <= MaxCalls
            /\ fdict' = gt.self
            /\ heap' = gt.heap
            /\ last' = Last("get", name, None, load, gt.exc, gt.why, gt.value, gt.called)
            /\ slot_calls' = [slot_calls EXCEPT ![name] = @ + gt.called]
            /\ UNCHANGED <<nextId, patches, merge_in, merge_op, merge_out, executor>>

Init == InitDict(LazyFeatureTypes)

Next ==
    \/ InsertStored
    \/ InsertNewFeatureIO
    \/ InsertOldFeatureIO
    \/ Get

Spec == Init /\ [][Next]_vars

(***************************************************************************)
(* Claims about reads of a placeholder (checked under Spec).               *)
(***************************************************************************)
HeldBefore(name) == DictHas(fdict.items, name)

Before(name) == DictGet(fdict.items, name)

\* C1, as stated: in any sequence of reads of one collection the collaborator
\* is invoked at most once per entry (counted from the insertion of the
\* entry's current value).
C1_AtMostOnePerSlot == \A name \in GetNames : slot_calls[name] <= 1

\* A read that finds its entry.
C1_Step ==
    LET name == last'.name
        old == Before(name)
    IN  (last'.op = "get" /\ HeldBefore(name)) =>
            /\ last'.called <= 1
            /\ (isFeatureIO(old) /\ last'.load) =>
                   /\ (last'.called = 1) => heap[old.ref].loaded_value = None
                   /\ (last'.exc = "none") =>
                          /\ ~isFeatureIO(last'.ret)
                          /\ DictGet(fdict'.items, name) = last'.ret
                          /\ heap'[old.ref].loaded_value = last'.ret
                   /\ (last'.exc # "none") => fdict' = fdict
            /\ ~isFeatureIO(old) =>
                   /\ last'.exc = "none"
                   /\ last'.ret = old
                   /\ last'.called = 0
                   /\ fdict' = fdict
                   /\ heap' = heap

\* C1, amended: a read makes at most one collaborator call, and only a forcing
\* read of a placeholder whose memo is empty makes one; when the forcing read
\* returns (the collaborator answered and the value passed the dictionary's
\* checks) the entry holds the returned realized value, which is the
\* placeholder's memo; every later read of a realized entry returns that very
\* value, calls nothing and changes nothing; a forcing read that raises
\* leaves the dictionary as it was; the collaborator answers at most once per
\* placeholder.
C1_ResolvedOnceThenMemoized ==
    [][C1_Step /\ \A k \in 1 .. Len(heap') : heap'[k].okcalls <= 1]_vars

\* C1's case: a read of a resolved entry returned the loaded object without a
\* collaborator call.
C1_Witness ==
    /\ last.op = "get"
    /\ last.exc = "none"
    /\ last.called = 0
    /\ last.ret.tag # "None"
    /\ ~isFeatureIO(last.ret)
    /\ last.ret.id[1] = "loaded"
    /\ DictGet(fdict.items, last.name) = last.ret
    /\ slot_calls[last.name] = 1

\* C2: a non-forcing read of an entry that holds a placeholder returns that
\* placeholder, makes no collaborator call, and leaves every entry of the
\* dictionary and the placeholder's memo as they were.
C2_NonForcingReadIsPure ==
    [][(/\ last'.op = "get"
        /\ ~last'.load
        /\ HeldBefore(last'.name)
        /\ isFeatureIO(Before(last'.name)))
       => /\ last'.exc = "none"
          /\ last'.ret = Before(last'.name)
          /\ last'.called = 0
          /\ fdict' = fdict
          /\ heap' = heap
          /\ slot_calls' = slot_calls]_vars

\* C2's case: a non-forcing read returned a placeholder that is still
\* unresolved, beside another entry.
C2_Witness ==
    /\ last.op = "get"
    /\ ~last.load
    /\ last.exc = "none"
    /\ isFeatureIO(last.ret)
    /\ heap[last.ret.ref].loaded_value = None
    /\ DictGet(fdict.items, last.name) = last.ret
    /\ Len(fdict.items) = 2

(***************************************************************************)
(* SpecInsert: insertions alone, of every sort of value under every sort   *)
(* of name, into a dictionary of any of the eleven kinds.  last notes the  *)
(* sort of the value given and the check that refused it.                  *)
(***************************************************************************)
InitInsert == InitDict(DictFeatureTypes)

\* The realized values offered to a dictionary: every one to the array and
\* vector kinds, one of each sort to the metadata kind (which stores all).
InsertInputs(ft) ==
    IF ft = "meta_info"
    THEN {Blob(NewId(0)), ndarray(NewId(0), 1, "float64"), GeoSeries(NewId(0))}
    ELSE RealizedValues(NewId(0))

\* Insertion of any realized value under any name.
InsertRealized ==
    \E name \in NameInputs, value \in InsertInputs(fdict.feature_type) :
        DoInsert(name, value, heap, <<>>, Sort(value))

\* Insertion of a new, unresolved FeatureIO under any name.
InsertPlaceholder ==
    /\ Len(heap) < MaxIO
    /\ \E name \in NameInputs :
           LET stored == CHOOSE v \in StoredInputs(fdict.feature_type, NewId(0)) : TRUE
           IN  DoInsert(name, FeatureIORef(Len(heap) + 1),
                        Append(heap, NewFeatureIO(Len(heap) + 1, stored)),
                        <<>>, Sort(FeatureIORef(0)))

NextInsert == InsertRealized \/ InsertPlaceholder

SpecInsert == InitInsert /\ [][NextInsert]_vars


(***************************************************************************)
(* Claims about insertion (checked under SpecInsert).  They are stated of  *)
(* every insertion that can be made into a reachable dictionary: what      *)
(* fdict[name] = value answers there.                                      *)
(***************************************************************************)
Inserting(name, value) == FeatureDict_setitem(fdict, name, value, 0)

\* The ranks and the discrete kinds as the claims list them.
ClaimedRank(ft) ==
    CASE ft \in {"data", "mask"} -> 4
      [] ft \in {"scalar", "label"} -> 2
      [] ft \in {"data_timeless", "mask_timeless"} -> 3
      [] ft \in {"scalar_timeless", "label_timeless"} -> 1

ClaimedArrayTypes ==
    {"data", "mask", "scalar", "label",
     "data_timeless", "mask_timeless", "scalar_timeless", "label_timeless"}

ClaimedDiscrete == {"mask", "label", "mask_timeless", "label_timeless"}

IntegerOrBoolean(dtype) == dtype \in {"int64", "bool"}

ClaimedForbidden == {".", "/", "\\", "|", ";", ":", "\n", "\t"}

BadName(name) ==
    name = <<>> \/ \E i \in 1 .. Len(name) : name[i] \in ClaimedForbidden

Arrays == {v \in RealizedValues(NewId(0)) : v.tag = "ndarray"}

\* C3: into a dictionary of an array kind with expected rank r, inserting an
\* array whose rank is not r raises ValueError, and inserting one of rank r
\* with a permitted element type under a valid name stores it.
C3_RankChecked ==
    fdict.feature_type \in ClaimedArrayTypes =>
        \A name \in NameInputs, v \in Arrays :
            LET r == ClaimedRank(fdict.feature_type)
                st == Inserting(name, v)
            IN  /\ (v.ndim # r) => st.exc = "ValueError"
                /\ (/\ v.ndim = r
                    /\ ~BadName(name)
                    /\ (fdict.feature_type \in ClaimedDiscrete => IntegerOrBoolean(v.dtype)))
                   => /\ st.exc = "none"
                      /\ DictHas(st.self.items, name)
                      /\ DictGet(st.self.items, name) = v

\* C3's case: an array of the wrong rank was refused by the rank check of a
\* dictionary that holds an array it accepted.
C3_Witness ==
    /\ last.op = "insert"
    /\ last.arg.tag = "ndarray"
    /\ last.exc = "ValueError"
    /\ last.why = "ndim"
    /\ \E i \in 1 .. Len(fdict.items) :
           /\ fdict.items[i].value.tag = "ndarray"
           /\ fdict.items[i].value.ndim = ClaimedRank(fdict.feature_type)

\* C4: into a dictionary of a discrete kind, inserting an array of the right
\* rank whose element type is neither integer nor boolean raises ValueError;
\* a dictionary of another array kind stores an array of the right rank
\* whatever its element type.
C4_DiscreteDtypeChecked ==
    fdict.feature_type \in ClaimedArrayTypes =>
        \A name \in NameInputs, v \in Arrays :
            LET st == Inserting(name, v)
            IN  (v.ndim = ClaimedRank(fdict.feature_type)) =>
                    IF fdict.feature_type \in ClaimedDiscrete
                    THEN ~IntegerOrBoolean(v.dtype) => st.exc = "ValueError"
                    ELSE ~BadName(name) =>
                             /\ st.exc = "none"
                             /\ DictGet(st.self.items, name) = v

\* C4's case: a float array of the right rank was refused by the element-type
\* check of a discrete dictionary.
C4_Witness ==
    /\ last.op = "insert"
    /\ last.arg.tag = "ndarray"
    /\ last.exc = "ValueError"
    /\ last.why = "dtype"
    /\ fdict.feature_type \in ClaimedDiscrete

\* C5: in a dictionary of any kind, inserting under the empty name or under a
\* name with one of the characters . / \ | ; : newline tab raises ValueError,
\* be the value realized or a placeholder; and no dictionary holds such a name.
C5_BadNameRefused ==
    /\ \A name \in NameInputs :
           BadName(name) =>
               \A v \in RealizedValues(NewId(0)) \cup {FeatureIORef(k) : k \in 1 .. MaxIO} :
                   Inserting(name, v).exc = "ValueError"
    /\ \A name \in DictNames(fdict.items) : ~BadName(name)

\* C5's case: a placeholder was refused for its name by a dictionary that
\* holds an entry.
C5_Witness ==
    /\ last.op = "insert"
    /\ last.arg.tag = "FeatureIO"
    /\ last.exc = "ValueError"
    /\ last.why \in {"illegal_char", "empty"}
    /\ Len(fdict.items) > 0

(***************************************************************************)
(* eodata.py: EOPatch.  A container is a function from the feature types   *)
(* to its attributes: a feature dictionary for the eleven entry kinds, a   *)
(* BBox or None for bbox, a list for timestamps -- or, for any of them, a  *)
(* FeatureIO that __getattribute__ loads on first access.  A BBox, a list  *)
(* and a plain mapping are values without identity.                        *)
(***************************************************************************)
FeatureTypeOrder ==
    <<"data", "mask", "scalar", "label", "vector", "data_timeless",
      "mask_timeless", "scalar_timeless", "label_timeless", "vector_timeless",
      "meta_info", "bbox", "timestamps">>

BBox(b) == [tag |-> "BBox", box |-> b]

List(items) == [tag |-> "list", items |-> items]

Mapping(items) == [tag |-> "dict", items |-> items]

Item(name, value) == [name |-> name, value |-> value]

\* The feature name None of the features (BBOX, None), (TIMESTAMPS, None).
NoName == <<"None">>

\* _FeatureDict.__init__: the items of the mapping are stored one by one
\* through __setitem__.
RECURSIVE FeatureDict_init(_, _, _, _)
FeatureDict_init(self, items, i, nid) ==
    IF i > Len(items)
    THEN SetResult("none", "", self, nid)
    ELSE With(FeatureDict_setitem(self, items[i].name, items[i].value, nid), LAMBDA st :
        IF st.exc # "none"
        THEN st
        ELSE FeatureDict_init(st.self, items, i + 1, st.nid))

\* _create_feature_dict(feature_type, value) of a mapping with items.
create_feature_dict_from(feature_type, value, nid) ==
    FeatureDict_init(create_feature_dict(feature_type), value.items, 1, nid)

\* EOPatch(bbox=bbox): the attrs defaults.
NewEOPatch(bbox) ==
    [ft \in FeatureType |->
        IF ft = "bbox" THEN bbox
        ELSE IF ft = "timestamps" THEN List(<<>>)
        ELSE create_feature_dict(ft)]

\* EOPatch._parse_feature_type_value
EOPatch_parse_feature_type_value(feature_type, value, nid) ==
    IF feature_type = "bbox" /\ (value = None \/ value.tag = "BBox")
    THEN Returned(value, nid)
    ELSE IF feature_type = "timestamps" /\ value.tag = "list"
    THEN Returned(List(value.items), nid)
    ELSE IF value.tag = "_FeatureDict"
    THEN Returned(value, nid)
    ELSE IF value.tag = "dict"
    THEN With(create_feature_dict_from(feature_type, value, nid), LAMBDA made :
        IF made.exc = "none"
        THEN Returned(made.self, made.nid)
        ELSE Raised(made.exc, made.why, made.nid))
    ELSE Raised("TypeError", "type_mismatch", nid)

\* EOPatch.__setattr__(key, value) of a feature type attribute, without a
\* feature name: a FeatureIO is stored as it is, anything else is parsed.
EOPatch_setattr(self, key, value, nid) ==
    With(IF isFeatureIO(value)
         THEN Returned(value, nid)
         ELSE EOPatch_parse_feature_type_value(key, value, nid), LAMBDA parsed :
        IF parsed.exc # "none"
        THEN SetResult(parsed.exc, parsed.why, self, parsed.nid)
        ELSE SetResult("none", "", [self EXCEPT ![key] = parsed.value], parsed.nid))

\* EOPatch.__getattribute__(key) with load = True and no feature name: a
\* FeatureIO attribute is loaded and set through __setattr__.
EOPatch_getattribute(self, hp, key, store_ok, nid) ==
    IF isFeatureIO(self[key])
    THEN With(FeatureIO_load(hp, self[key].ref, store_ok), LAMBDA ld :
        IF ld.exc # "none"
        THEN GetResult(ld.exc, "load", None, self, ld.heap, nid, ld.called)
        ELSE With(EOPatch_setattr(self, key, ld.value, nid), LAMBDA st :
            IF st.exc # "none"
            THEN GetResult(st.exc, st.why, None, self, ld.heap, st.nid, ld.called)
            ELSE GetResult("none", "", st.self[key], st.self, ld.heap, st.nid, ld.called)))
    ELSE GetResult("none", "", self[key], self, hp, nid, 0)

\* EOPatch.__getitem__((feature_type, feature_name)): the attribute is
\* read (and loaded), then the entry is read from the dictionary with
\* load = True.
EOPatch_getitem(self, hp, feature_type, feature_name, store_ok, nid) ==
    With(EOPatch_getattribute(self, hp, feature_type, store_ok, nid), LAMBDA ga :
        IF ga.exc # "none" \/ ga.value.tag # "_FeatureDict"
        THEN ga
        ELSE With(FeatureDict_getitem(ga.value, ga.heap, feature_name, TRUE, store_ok,
                                      ga.nid), LAMBDA gi :
            GetResult(gi.exc, gi.why, gi.value,
                      [ga.self EXCEPT ![feature_type] = gi.self],
                      gi.heap, gi.nid, ga.called + gi.called)))

\* __setitem__ that assigns the value to a bbox or timestamps attribute
\* addressed with a name.
EOPatch_setitem_Scalar(self, hp, feature_type, feature_name, value, store_ok, nid) ==
    With(EOPatch_getattribute(self, hp, feature_type, store_ok, nid), LAMBDA ga :
        IF ga.exc # "none"
        THEN ga
        ELSE IF ga.value.tag # "_FeatureDict"
        THEN GetResult("none", "", None, [ga.self EXCEPT ![feature_type] = value],
                       ga.heap, ga.nid, ga.called)
        ELSE With(FeatureDict_setitem(ga.value, feature_name, value, ga.nid), LAMBDA st :
            GetResult(st.exc, st.why, None,
                      [ga.self EXCEPT ![feature_type] = st.self],
                      ga.heap, st.nid, ga.called)))

\* EOPatch.__setitem__((feature_type, feature_name), value):
\* self.__getattribute__(key)[feature_name] = value.  A BBox or a list
\* takes no item under a name (TypeError).
EOPatch_setitem(self, hp, feature_type, feature_name, value, store_ok, nid) ==
    With(EOPatch_getattribute(self, hp, feature_type, store_ok, nid), LAMBDA ga :
        IF ga.exc # "none"
        THEN ga
        ELSE IF ga.value.tag # "_FeatureDict"
        THEN GetResult("TypeError", "item_assignment", None, ga.self, ga.heap, ga.nid,
                       ga.called)
        ELSE With(FeatureDict_setitem(ga.value, feature_name, value, ga.nid), LAMBDA st :
            GetResult(st.exc, st.why, None,
                      [ga.self EXCEPT ![feature_type] = st.self],
                      ga.heap, st.nid, ga.called)))

\* What a walk over the features answers: the (feature type, name) pairs
\* found, the container (some attributes may have been loaded), the heap.
Walked(exc, why, features, self, hp, called) ==
    [exc |-> exc, why |-> why, features |-> features, self |-> self, heap |-> hp,
     called |-> called]

\* The names of a dictionary, in insertion order, paired with its type.
RECURSIVE NamesOf(_, _, _)
NamesOf(feature_type, items, i) ==
    IF i > Len(items)
    THEN <<>>
    ELSE <<<<feature_type, items[i].name>>>> \o NamesOf(feature_type, items, i + 1)

\* bool(value) of a bbox or timestamps attribute (EOPatch.__contains__).
Truthy(value) ==
    /\ value # None
    /\ value.tag = "list" => value.items # <<>>

\* The loop of EOPatch.get_features over the feature types from the i-th
\* on, restricted to the types in sel: self[feature_type] loads an attribute
\* that is a FeatureIO.
RECURSIVE get_features_from(_, _, _, _, _, _, _)
get_features_from(sel, self, hp, i, acc, store_ok, called) ==
    IF i > Len(FeatureTypeOrder)
    THEN Walked("none", "", acc, self, hp, called)
    ELSE With(FeatureTypeOrder[i], LAMBDA feature_type :
        IF feature_type \notin sel
        THEN get_features_from(sel, self, hp, i + 1, acc, store_ok, called)
        ELSE With(EOPatch_getattribute(self, hp, feature_type, store_ok, 0), LAMBDA ga :
            IF ga.exc # "none"
            THEN Walked(ga.exc, ga.why, acc, ga.self, ga.heap, called + ga.called)
            ELSE get_features_from(
                     sel, ga.self, ga.heap, i + 1,
                     IF feature_type \in {"bbox", "timestamps"}
                     THEN IF Truthy(ga.value)
                          THEN Append(acc, <<feature_type, NoName>>)
                          ELSE acc
                     ELSE acc \o NamesOf(feature_type, ga.value.items, 1),
                     store_ok, called + ga.called)))

\* EOPatch.get_features
get_features(self, hp, store_ok) ==
    get_features_from(FeatureType, self, hp, 1, <<>>, store_ok, 0)

\* parse_features(features, eopatch=self) (utils/parsing.py), for features
\* given as a set of feature types (the Ellipsis is the set of all): the
\* features of the container that are of a selected type.
parse_features(features, self, hp, store_ok) ==
    get_features_from(features, self, hp, 1, <<>>, store_ok, 0)

\* What a copy answers: the source container, the new one, the heap, the
\* next identity and the collaborator calls made.
Copied(exc, why, self, new, hp, nid, called) ==
    [exc |-> exc, why |-> why, self |-> self, new |-> new, heap |-> hp,
     nid |-> nid, called |-> called]

\* The identity of the deep copy of an object.  (Copies are made of
\* patches[1] alone, which holds no copy.)
CopyId(id) == <<IF id[1] = "new" THEN "copy of new" ELSE "copy of loaded", id[2]>>

\* copy.deepcopy of a realized value: an equal object of a new identity.
DeepCopyOf(value) ==
    IF value # None /\ "id" \in DOMAIN value
    THEN [value EXCEPT !.id = CopyId(@)]
    ELSE value

\* What the loop puts into the new container for the value read from the
\* source: the value itself (__copy__), or its copy.deepcopy, which for a
\* FeatureIO is a new FeatureIO on the same filesystem with a copy of the
\* memo.  [value, heap].
CopiedValue(deep, value, hp) ==
    IF ~deep
    THEN [value |-> value, heap |-> hp]
    ELSE IF isFeatureIO(value)
    THEN [value |-> FeatureIORef(Len(hp) + 1),
          heap |-> Append(hp, [hp[value.ref] EXCEPT
                                   !.loaded_value = DeepCopyOf(@),
                                   !.calls = 0, !.okcalls = 0])]
    ELSE [value |-> DeepCopyOf(value), heap |-> hp]

\* The loop of __copy__ (deep = FALSE) and of __deepcopy__ (deep = TRUE)
\* over the parsed features; load is the argument that the loop passes to
\* _FeatureDict.__getitem__.
RECURSIVE copy_features(_, _, _, _, _, _, _, _, _, _)
copy_features(deep, load, features, i, self, new, hp, nid, store_ok, called) ==
    IF i > Len(features)
    THEN Copied("none", "", self, new, hp, nid, called)
    ELSE With(EOPatch_getattribute(self, hp, features[i][1], store_ok, nid), LAMBDA ga :
        IF ga.exc # "none"
        THEN Copied(ga.exc, ga.why, ga.self, new, ga.heap, nid, called + ga.called)
        ELSE IF features[i][1] \in {"bbox", "timestamps"}
        THEN With(EOPatch_setattr(new, features[i][1], ga.value, nid), LAMBDA st :
            IF st.exc # "none"
            THEN Copied(st.exc, st.why, ga.self, new, ga.heap, nid, called + ga.called)
            ELSE copy_features(deep, load, features, i + 1, ga.self, st.self,
                               ga.heap, nid, store_ok, called + ga.called))
        ELSE With(FeatureDict_getitem(ga.value, ga.heap, features[i][2], load, store_ok,
                                      nid), LAMBDA gi :
             With([ga.self EXCEPT ![features[i][1]] = gi.self], LAMBDA src :
            IF gi.exc # "none"
            THEN Copied(gi.exc, gi.why, src, new, gi.heap, gi.nid,
                        called + ga.called + gi.called)
            ELSE With(CopiedValue(deep, gi.value, gi.heap), LAMBDA cp :
                 With(EOPatch_setitem(new, cp.heap, features[i][1], features[i][2],
                                      cp.value, store_ok, gi.nid), LAMBDA st :
                IF st.exc # "none"
                THEN Copied(st.exc, st.why, src, new, st.heap, st.nid,
                            called + ga.called + gi.called + st.called)
                ELSE copy_features(deep, load, features, i + 1, src, st.self,
                                   st.heap, st.nid, store_ok,
                                   called + ga.called + gi.called + st.called))))))

\* A copy (__copy__ or __deepcopy__): the new container is made with a copy
\* of self.bbox, the features are parsed and then copied one by one.
copy_eopatch(deep, load, self, hp, features, store_ok, nid) ==
    With(EOPatch_getattribute(self, hp, "bbox", store_ok, nid), LAMBDA gb :
        IF gb.exc # "none"
        THEN Copied(gb.exc, gb.why, gb.self, None, gb.heap, nid, gb.called)
        ELSE With(parse_features(features, gb.self, gb.heap, store_ok), LAMBDA pf :
            IF pf.exc # "none"
            THEN Copied(pf.exc, pf.why, pf.self, None, pf.heap, nid, gb.called + pf.called)
            ELSE copy_features(deep, load, pf.features, 1, pf.self, NewEOPatch(gb.value),
                               pf.heap, nid, store_ok, gb.called + pf.called)))

\* __copy__ that reads the entries with load = True.
EOPatch_copy_Loading(self, hp, features, store_ok, nid) ==
    copy_eopatch(FALSE, TRUE, self, hp, features, store_ok, nid)

\* EOPatch.__copy__
EOPatch_copy(self, hp, features, store_ok, nid) ==
    copy_eopatch(FALSE, FALSE, self, hp, features, store_ok, nid)

\* __deepcopy__ that keeps the values as __copy__ does.
EOPatch_deepcopy_Shallow(self, hp, features, store_ok, nid) ==
    copy_eopatch(FALSE, FALSE, self, hp, features, store_ok, nid)

\* EOPatch.__deepcopy__
EOPatch_deepcopy(self, hp, features, store_ok, nid) ==
    copy_eopatch(TRUE, FALSE, self, hp, features, store_ok, nid)

(***************************************************************************)
(* SpecPatch: one EOPatch (patches[1]) under assignments and reads, and    *)
(* the copy last made of it (patches[2]), which is followed until the next *)
(* operation on patches[1].  The caller has one object for each entry      *)
(* (PatchValue); nextId stays 0.  The counters of the heap count the       *)
(* collaborator calls of the operation at hand.                            *)
(***************************************************************************)
PatchFeatureTypes == {"data", "meta_info"}

PatchNames == {<<"a">>}

\* The attributes that EOPatch.load assigns as they come from the loader.
LoadedFeatureTypes == {"timestamps", "meta_info"}

\* features: the Ellipsis, or one feature type.
Selections == {FeatureType, {"data"}}

Features(sel) == [tag |-> "features", sel |-> sel]

\* What the backing store holds for an attribute.
StoredAttribute(ft) ==
    IF ft = "timestamps" THEN List(<<1>>) ELSE Mapping(<<Item(<<"a">>, Blob(NewId(0)))>>)

\* The realized value a caller assigns to an entry of the type.
PatchValue(ft) ==
    IF ft = "meta_info" THEN Blob(NewId(1)) ELSE ndarray(NewId(0), ndim(ft), "float64")

InitPatch ==
    /\ patches \in {<<NewEOPatch(bbox)>> : bbox \in {None, BBox(1)}}
    /\ heap = <<>>
    /\ nextId = 0
    /\ last = Idle
    /\ fdict = None
    /\ slot_calls = [name \in GetNames |-> 0]
    /\ merge_in = <<>>
    /\ merge_op = "None"
    /\ merge_out = NoMerge
    /\ executor = NoExecutor

\* The heap with the counters of its objects at zero.
Uncounted(hp) == [k \in DOMAIN hp |-> [hp[k] EXCEPT !.calls = 0, !.okcalls = 0]]

\* The stored values behind a new placeholder of the type: one that the
\* dictionary accepts and, for arrays, one of a wrong rank.
PatchStored(ft) ==
    IF ft = "meta_info"
    THEN {Blob(NewId(0))}
    ELSE {ndarray(NewId(0), ndim(ft), "float64"), ndarray(NewId(0), ndim(ft) + 1, "float64")}

\* The effect of an operation on patches[1].
DoPatch(op, r) ==
    /\ patches' = <<r.self>>
    /\ heap' = Uncounted(r.heap)
    /\ nextId' = r.nid
    /\ last' = Last(op, <<>>, None, TRUE, r.exc, "", None, r.called)
    /\ UNCHANGED <<fdict, slot_calls, merge_in, merge_op, merge_out, executor>>

\* eopatch[ft, name] = value, of a new realized value.
SetFeature ==
    \E ft \in PatchFeatureTypes, name \in PatchNames, store_ok \in BOOLEAN :
        DoPatch("set",
                EOPatch_setitem(patches[1], heap, ft, name, PatchValue(ft), store_ok,
                                nextId))

\* eopatch[ft, name] = FeatureIO(...), of a new placeholder.
SetFeatureIO ==
    /\ Len(heap) < MaxIO
    /\ \E ft \in PatchFeatureTypes, name \in PatchNames, store_ok \in BOOLEAN :
       \E stored \in PatchStored(ft) :
           DoPatch("set",
                   EOPatch_setitem(patches[1],
                                   Append(heap, NewFeatureIO(Len(heap) + 1, stored)),
                                   ft, name, FeatureIORef(Len(heap) + 1), store_ok,
                                   nextId))

\* eopatch.timestamps = FeatureIO(...), eopatch.meta_info = FeatureIO(...)
SetAttributeIO ==
    /\ Len(heap) < MaxIO
    /\ \E ft \in LoadedFeatureTypes :
       \E st \in {EOPatch_setattr(patches[1], ft, FeatureIORef(Len(heap) + 1), nextId)} :
           DoPatch("setattr",
                   GetResult(st.exc, st.why, None, st.self,
                             Append(heap, NewFeatureIO(Len(heap) + 1, StoredAttribute(ft))),
                             st.nid, 0))

\* eopatch.timestamps = [...]
SetTimestamps ==
    \E items \in {<<>>, <<1>>} :
    \E st \in {EOPatch_setattr(patches[1], "timestamps", List(items), nextId)} :
        DoPatch("setattr", GetResult(st.exc, st.why, None, st.self, heap, st.nid, 0))

\* eopatch[ft, name]
GetFeature ==
    \E ft \in PatchFeatureTypes, name \in PatchNames, store_ok \in BOOLEAN :
        DoPatch("get",
                EOPatch_getitem(patches[1], heap, ft, name, store_ok, nextId))

\* The effect of a copy of patches[1]: the new container is patches[2]
\* when the copy returns.  The deep copies of a run make at most as many
\* FeatureIO objects as the caller may.
DoCopy(op, features, r) ==
    /\ Len(r.heap) <= 2 * MaxIO
    /\ patches' = IF r.exc = "none" THEN <<r.self, r.new>> ELSE <<r.self>>
    /\ heap' = Uncounted(r.heap)
    /\ nextId' = r.nid
    /\ last' = Last(op, <<>>, Features(features), FALSE, r.exc, "", None, r.called)
    /\ UNCHANGED <<fdict, slot_calls, merge_in, merge_op, merge_out, executor>>

\* eopatch.copy(features=features)
Copy ==
    \E features \in Selections, store_ok \in BOOLEAN :
        DoCopy("copy", features,
               EOPatch_copy(patches[1], heap, features, store_ok, nextId))

\* eopatch.copy(features=features, deep=True)
DeepCopy ==
    \E features \in Selections, store_ok \in BOOLEAN :
        DoCopy("deepcopy", features,
               EOPatch_deepcopy(patches[1], heap, features, store_ok, nextId))

NextPatch ==
    \/ SetFeature
    \/ SetFeatureIO
    \/ SetAttributeIO
    \/ SetTimestamps
    \/ GetFeature
    \/ Copy
    \/ DeepCopy

SpecPatch == InitPatch /\ [][NextPatch]_vars

\* Every attribute of every container is of a sort the container can hold.
PatchTypeOK ==
    \A p \in 1 .. Len(patches) : \A ft \in FeatureType :
        patches[p][ft].tag \in {"None", "BBox", "list", "_FeatureDict", "FeatureIO"}

(***************************************************************************)
(* Claims about copies (checked under SpecPatch).  A step that ends with   *)
(* last.op = "copy" or "deepcopy" and last.exc = "none" is a copy of       *)
(* patches[1] that returned patches'[2]; the unprimed variables are the    *)
(* source and the heap before the copy.                                    *)
(***************************************************************************)
CopyReturns(op) == last'.op = op /\ last'.exc = "none"

\* The selected feature types whose attribute in the source is a dictionary.
SelectedDicts == {ft \in DictFeatureTypes \cap last'.arg.sel : patches[1][ft].tag = "_FeatureDict"}

\* The selected attributes of the source that are unresolved placeholders.
SelectedAttributeIOs ==
    {ft \in last'.arg.sel : /\ isFeatureIO(patches[1][ft])
                            /\ heap[patches[1][ft].ref].loaded_value = None}

Unresolved(hp, v) == isFeatureIO(v) /\ hp[v.ref].loaded_value = None

\* Realized entries are shared, unresolved entries stay unresolved in the
\* source and in the copy, and no collaborator is called for an entry.
C6_Entries ==
    /\ \A ft \in SelectedDicts : \A name \in DictNames(patches[1][ft].items) :
           LET v == DictGet(patches[1][ft].items, name)
           IN  /\ DictHas(patches'[2][ft].items, name)
               /\ ~isFeatureIO(v) => DictGet(patches'[2][ft].items, name) = v
               /\ Unresolved(heap, v) =>
                      /\ DictGet(patches'[2][ft].items, name) = v
                      /\ DictGet(patches'[1][ft].items, name) = v
                      /\ Unresolved(heap', v)
                      /\ heap'[v.ref].calls = 0

\* C6 as stated: copy(deep=false) returns a new container in which every
\* selected realized entry is the identical object held by the source and
\* every selected unresolved placeholder entry is still unresolved in source
\* and copy; the copy makes no collaborator call.
C6_ShallowCopyNoCall ==
    [][CopyReturns("copy") => C6_Entries /\ last'.called = 0]_vars

\* C6 (amended): copy(deep=false) returns a new container in which every
\* selected realized entry is the identical object held by the source and
\* every selected unresolved placeholder entry is still unresolved in source
\* and copy; the copy makes no collaborator call for an entry.  It calls a
\* collaborator exactly once for every selected attribute (the timestamps,
\* a whole collection) that is itself an unresolved placeholder, which it
\* resolves in the source.
C6_ShallowCopyShares ==
    [][CopyReturns("copy") =>
           /\ C6_Entries
           /\ last'.called = Cardinality(SelectedAttributeIOs)
           /\ \A ft \in SelectedAttributeIOs : ~isFeatureIO(patches'[1][ft])]_vars

\* A copy returned that shares a realized entry with the source and holds
\* an unresolved placeholder that the source holds too.
C6_Witness ==
    /\ last.op = "copy" /\ last.exc = "none" /\ Len(patches) = 2
    /\ DictHas(patches[2]["data"].items, <<"a">>)
    /\ DictGet(patches[2]["data"].items, <<"a">>) = PatchValue("data")
    /\ DictGet(patches[1]["data"].items, <<"a">>) = PatchValue("data")
    /\ DictHas(patches[2]["meta_info"].items, <<"a">>)
    /\ Unresolved(heap, DictGet(patches[2]["meta_info"].items, <<"a">>))
    /\ DictGet(patches[1]["meta_info"].items, <<"a">>)
           = DictGet(patches[2]["meta_info"].items, <<"a">>)

\* Equal and not identical: the same object but for its identity.
EqualNotIdentical(v, w) ==
    /\ w # v
    /\ w.tag = v.tag
    /\ [w EXCEPT !.id = v.id] = v

\* Realized entries are duplicated, a placeholder entry gets a wrapper of
\* its own on the same backing store, with the memo duplicated if there is
\* one; the entries of the source and their wrappers are as they were.
C7_Entries ==
    /\ \A ft \in SelectedDicts : \A name \in DictNames(patches[1][ft].items) :
           LET v == DictGet(patches[1][ft].items, name)
               w == DictGet(patches'[2][ft].items, name)
           IN  /\ DictHas(patches'[2][ft].items, name)
               /\ DictGet(patches'[1][ft].items, name) = v
               /\ ~isFeatureIO(v) => EqualNotIdentical(v, w)
               /\ isFeatureIO(v) =>
                      /\ isFeatureIO(w) /\ w.ref # v.ref
                      /\ heap'[v.ref] = heap[v.ref]
                      /\ heap'[w.ref].filesystem = heap[v.ref].filesystem
                      /\ heap'[w.ref].stored = heap[v.ref].stored
                      /\ heap'[w.ref].calls = 0
                      /\ IF heap[v.ref].loaded_value = None
                         THEN heap'[w.ref].loaded_value = None
                         ELSE EqualNotIdentical(heap[v.ref].loaded_value,
                                                heap'[w.ref].loaded_value)

\* C7 as stated: copy(deep=true) returns a new container in which every
\* selected realized entry is equal to but not identical with the source's;
\* for a placeholder entry the copy holds a distinct wrapper that shares the
\* collaborator reference, with only an already resolved memo duplicated;
\* the deep copy makes no collaborator call and leaves the source's slots
\* unchanged.
C7_DeepCopyNoCall ==
    [][CopyReturns("deepcopy") =>
           /\ C7_Entries
           /\ last'.called = 0
           /\ patches'[1] = patches[1]]_vars

\* C7 (amended): as stated for the entries, whose slots in the source are
\* unchanged and for which no collaborator is called.  The deep copy calls
\* a collaborator exactly once for every selected attribute (the
\* timestamps, a whole collection) that is itself an unresolved placeholder,
\* and resolves that attribute in the source.
C7_DeepCopyDuplicates ==
    [][CopyReturns("deepcopy") =>
           /\ C7_Entries
           /\ last'.called = Cardinality(SelectedAttributeIOs)
           /\ \A ft \in SelectedAttributeIOs : ~isFeatureIO(patches'[1][ft])
           /\ \A ft \in FeatureType \ SelectedAttributeIOs :
                  patches'[1][ft] = patches[1][ft]]_vars

\* A deep copy returned that holds a duplicate of a realized entry and a
\* wrapper of its own with a duplicate of the resolved memo.
C7_Witness ==
    /\ last.op = "deepcopy" /\ last.exc = "none" /\ Len(patches) = 2
    /\ DictHas(patches[2]["meta_info"].items, <<"a">>)
    /\ EqualNotIdentical(PatchValue("meta_info"),
                         DictGet(patches[2]["meta_info"].items, <<"a">>))
    /\ DictGet(patches[1]["meta_info"].items, <<"a">>) = PatchValue("meta_info")
    /\ DictHas(patches[2]["data"].items, <<"a">>)
    /\ isFeatureIO(DictGet(patches[2]["data"].items, <<"a">>))
    /\ isFeatureIO(DictGet(patches[1]["data"].items, <<"a">>))
    /\ heap[DictGet(patches[2]["data"].items, <<"a">>).ref].loaded_value # None

(***************************************************************************)
(* The merge engine (eodata_merge.py, after the specification's section    *)
(* 4.4) and EOPatch.merge, which assembles the merged container from the   *)
(* content that the engine answers.  A temporal array carries its slices   *)
(* along the time axis: [tag, id, ndim, dtype, slices].                    *)
(***************************************************************************)
TimeArray(id, nd, dtype, slices) ==
    [tag |-> "ndarray", id |-> id, ndim |-> nd, dtype |-> dtype, slices |-> slices]

MergedId == <<"merged", 0>>

Frame(t, slice) == [t |-> t, slice |-> slice]

\* A frame put into a sequence sorted by timestamp, after the frames that
\* are not later (the sort is stable).
RECURSIVE InsertSorted(_, _)
InsertSorted(sorted, x) ==
    IF sorted = <<>>
    THEN <<x>>
    ELSE IF sorted[Len(sorted)].t <= x.t
    THEN Append(sorted, x)
    ELSE Append(InsertSorted(SubSeq(sorted, 1, Len(sorted) - 1), x), sorted[Len(sorted)])

RECURSIVE StableSort(_)
StableSort(frames) ==
    IF frames = <<>>
    THEN <<>>
    ELSE InsertSorted(StableSort(SubSeq(frames, 1, Len(frames) - 1)), frames[Len(frames)])

\* The features of all the inputs (each one parsed against its container),
\* without repetitions.
RECURSIVE all_features(_, _, _)
all_features(eopatches, i, acc) ==
    IF i > Len(eopatches)
    THEN acc
    ELSE LET found == parse_features(FeatureType, eopatches[i], <<>>, TRUE).features
             fresh == SelectSeq(found, LAMBDA f : \A j \in 1 .. Len(acc) : acc[j] # f)
         IN  all_features(eopatches, i + 1, acc \o fresh)

\* The box of the first input that has one, without a comparison.
get_common_bbox_First(eopatches) ==
    Returned(eopatches[CHOOSE i \in 1 .. Len(eopatches) :
                           /\ eopatches[i]["bbox"] # None
                           /\ \A j \in 1 .. i - 1 : eopatches[j]["bbox"] = None]["bbox"], 0)

\* Step 2: the boxes that are there must be equal; the common box.
get_common_bbox(eopatches) ==
    LET boxes == {eopatches[i]["bbox"] : i \in 1 .. Len(eopatches)} \ {None}
    IN  IF Cardinality(boxes) > 1
        THEN Raised("ValueError", "bbox_mismatch", 0)
        ELSE IF boxes = {}
        THEN Returned(None, 0)
        ELSE Returned(CHOOSE b \in boxes : TRUE, 0)

\* Step 3: the sorted union of the timestamp sequences, duplicates kept.
RECURSIVE all_timestamps(_, _)
all_timestamps(eopatches, i) ==
    IF i > Len(eopatches)
    THEN <<>>
    ELSE eopatches[i]["timestamps"].items \o all_timestamps(eopatches, i + 1)

\* The sorted timestamps, each of them once.
merge_timestamps_Unique(eopatches) ==
    With(all_timestamps(eopatches, 1), LAMBDA all :
    With(StableSort([k \in 1 .. Len(all) |-> Frame(all[k], 0)]), LAMBDA sorted :
    With(SelectSeq([k \in 1 .. Len(sorted) |-> k],
                   LAMBDA k : k = 1 \/ sorted[k - 1].t # sorted[k].t), LAMBDA firsts :
        [k \in 1 .. Len(firsts) |-> sorted[firsts[k]].t])))

merge_timestamps(eopatches) ==
    With(all_timestamps(eopatches, 1), LAMBDA all :
    With(StableSort([k \in 1 .. Len(all) |-> Frame(all[k], 0)]), LAMBDA sorted :
        [k \in 1 .. Len(sorted) |-> sorted[k].t]))

\* Step 4: the slices of one container's entry against its timestamps.
FramesOf(eopatch, feature_type, feature_name) ==
    IF DictHas(eopatch[feature_type].items, feature_name)
    THEN LET value == DictGet(eopatch[feature_type].items, feature_name)
         IN  [k \in 1 .. Len(value.slices) |->
                 Frame(eopatch["timestamps"].items[k], value.slices[k])]
    ELSE <<>>

RECURSIVE all_frames(_, _, _, _)
all_frames(eopatches, feature_type, feature_name, i) ==
    IF i > Len(eopatches)
    THEN <<>>
    ELSE FramesOf(eopatches[i], feature_type, feature_name)
             \o all_frames(eopatches, feature_type, feature_name, i + 1)

\* The frames of equal timestamp (they are adjacent) become one; if
\* compare is true their slices must be identical, or there is a conflict.
Taken(conflict, frames) == [conflict |-> conflict, frames |-> frames]

RECURSIVE take_one(_, _, _, _)
take_one(frames, i, acc, compare) ==
    IF i > Len(frames)
    THEN Taken(FALSE, acc)
    ELSE IF acc # <<>> /\ acc[Len(acc)].t = frames[i].t
    THEN IF compare /\ acc[Len(acc)].slice # frames[i].slice
         THEN Taken(TRUE, acc)
         ELSE take_one(frames, i + 1, acc, compare)
    ELSE take_one(frames, i + 1, Append(acc, frames[i]), compare)

\* The array that holds the slices of the frames.
ArrayOf(feature_type, frames) ==
    TimeArray(MergedId, ndim(feature_type), "float64",
              [k \in 1 .. Len(frames) |-> frames[k].slice])

\* The elements of a slice under a statistic: a missing value (NaN) or a
\* number, kept as the reduced fraction num/den with den > 0.
NaN == [tag |-> "nan"]

Num(n, d) == [tag |-> "num", num |-> n, den |-> d]

RECURSIVE GCD(_, _)
GCD(a, b) == IF b = 0 THEN a ELSE GCD(b, a % b)

Ratio(n, d) ==
    With(GCD(IF n < 0 THEN -n ELSE n, d), LAMBDA g : Num(n \div g, d \div g))

Less(a, b) == a.num * b.den < b.num * a.den

Plus(a, b) == Ratio(a.num * b.den + b.num * a.den, a.den * b.den)

Over(a, n) == Ratio(a.num, a.den * n)

RECURSIVE Sum(_)
Sum(values) == IF values = <<>> THEN Num(0, 1) ELSE Plus(Head(values), Sum(Tail(values)))

\* A number put into a nondecreasing sequence of numbers.
RECURSIVE InsertNumber(_, _)
InsertNumber(sorted, x) ==
    IF sorted = <<>>
    THEN <<x>>
    ELSE IF Less(x, sorted[Len(sorted)])
    THEN Append(InsertNumber(SubSeq(sorted, 1, Len(sorted) - 1), x), sorted[Len(sorted)])
    ELSE Append(sorted, x)

RECURSIVE SortNumbers(_)
SortNumbers(values) ==
    IF values = <<>>
    THEN <<>>
    ELSE InsertNumber(SortNumbers(SubSeq(values, 1, Len(values) - 1)), values[Len(values)])

\* The statistic of the numbers of a nonempty sequence.
statistic(operation, numbers) ==
    With(SortNumbers(numbers), LAMBDA sorted :
        CASE operation = "min" -> sorted[1]
          [] operation = "max" -> sorted[Len(sorted)]
          [] operation = "mean" -> Over(Sum(numbers), Len(numbers))
          [] operation = "median" ->
                IF Len(sorted) % 2 = 1
                THEN sorted[(Len(sorted) + 1) \div 2]
                ELSE Over(Plus(sorted[Len(sorted) \div 2], sorted[Len(sorted) \div 2 + 1]), 2))

\* A statistic that a missing value makes missing.
nan_statistic_Propagating(operation, values) ==
    IF \E k \in 1 .. Len(values) : values[k] = NaN
    THEN NaN
    ELSE statistic(operation, values)

\* The statistic with the missing values left out (nanmin, nanmax, nanmean,
\* nanmedian): missing if every value is missing.
nan_statistic(operation, values) ==
    With(SelectSeq(values, LAMBDA v : v # NaN), LAMBDA present :
        IF present = <<>> THEN NaN ELSE statistic(operation, present))

\* The slices of a group combined position by position.
elementwise(operation, slices) ==
    [p \in 1 .. Len(slices[1]) |->
        nan_statistic(operation, [k \in 1 .. Len(slices) |-> slices[k][p]])]

\* The frames of equal timestamp (they are adjacent) become one frame that
\* holds the statistic of their slices.
RECURSIVE reduce_groups(_, _, _, _)
reduce_groups(frames, i, operation, acc) ==
    IF i > Len(frames)
    THEN acc
    ELSE With(SelectSeq(frames, LAMBDA f : f.t = frames[i].t), LAMBDA group :
        reduce_groups(
            frames, i + Len(group), operation,
            Append(acc, Frame(frames[i].t,
                              elementwise(operation,
                                          [k \in 1 .. Len(group) |-> group[k].slice])))))

\* The merge of a time-dependent raster feature, as a function of the
\* order of the frames and of whether the slices of a group are compared.
time_dependent_merge(feature_type, frames, operation, compare) ==
    With(IF operation = "concatenate"
         THEN Taken(FALSE, frames)
         ELSE IF operation = "None"
         THEN take_one(frames, 1, <<>>, compare)
         ELSE Taken(FALSE, reduce_groups(frames, 1, operation, <<>>)), LAMBDA kept :
        IF kept.conflict
        THEN Raised("ValueError", "slices_differ", 0)
        ELSE Returned(ArrayOf(feature_type, kept.frames), 0))

\* The merge that takes the first slice of a group without a comparison.
merge_time_dependent_raster_feature_FirstSlice(eopatches, feature_type, feature_name, operation) ==
    time_dependent_merge(
        feature_type, StableSort(all_frames(eopatches, feature_type, feature_name, 1)),
        operation, FALSE)

\* The merge that leaves the frames in the order of the inputs.
merge_time_dependent_raster_feature_Unsorted(eopatches, feature_type, feature_name, operation) ==
    time_dependent_merge(
        feature_type, all_frames(eopatches, feature_type, feature_name, 1),
        operation, TRUE)

\* Step 4: the frames of all the inputs, sorted by timestamp, grouped by
\* identical timestamp, and the operation applied to the groups.
merge_time_dependent_raster_feature(eopatches, feature_type, feature_name, operation) ==
    time_dependent_merge(
        feature_type, StableSort(all_frames(eopatches, feature_type, feature_name, 1)),
        operation, TRUE)

\* What the engine answers: the content, a mapping from features to values.
Content(exc, why, items) == [exc |-> exc, why |-> why, items |-> items]

\* merge_eopatches: the value of every feature found in an input; a feature
\* that no input has is not in the content.
RECURSIVE merge_features(_, _, _, _, _)
merge_features(eopatches, features, i, time_dependent_op, acc) ==
    IF i > Len(features)
    THEN Content("none", "", acc)
    ELSE With(IF features[i][1] = "bbox"
              THEN get_common_bbox(eopatches)
              ELSE IF features[i][1] = "timestamps"
              THEN Returned(List(merge_timestamps(eopatches)), 0)
              ELSE merge_time_dependent_raster_feature(
                       eopatches, features[i][1], features[i][2], time_dependent_op),
              LAMBDA merged :
        IF merged.exc # "none"
        THEN Content(merged.exc, merged.why, acc)
        ELSE merge_features(eopatches, features, i + 1, time_dependent_op,
                            Append(acc, Item(features[i], merged.value))))

merge_eopatches(eopatches, time_dependent_op) ==
    merge_features(eopatches, all_features(eopatches, 1, <<>>), 1, time_dependent_op, <<>>)

\* The loop of EOPatch.merge: merged_eopatch[feature] = value.
RECURSIVE merge_assemble(_, _, _)
merge_assemble(merged_eopatch, items, i) ==
    IF i > Len(items)
    THEN Returned(merged_eopatch, 0)
    ELSE With(IF items[i].name[2] = NoName
              THEN EOPatch_setattr(merged_eopatch, items[i].name[1], items[i].value, 0)
              ELSE EOPatch_setitem(merged_eopatch, <<>>, items[i].name[1],
                                   items[i].name[2], items[i].value, TRUE, 0),
              LAMBDA st :
        IF st.exc # "none"
        THEN Raised(st.exc, st.why, 0)
        ELSE merge_assemble(st.self, items, i + 1))

\* EOPatch.merge: the content of the engine is put into a new container,
\* made with the bbox that the content has under (BBOX, None).
EOPatch_merge(eopatches, time_dependent_op) ==
    With(merge_eopatches(eopatches, time_dependent_op), LAMBDA eopatch_content :
        IF eopatch_content.exc # "none"
        THEN Raised(eopatch_content.exc, eopatch_content.why, 0)
        ELSE IF ~DictHas(eopatch_content.items, <<"bbox", NoName>>)
        THEN Raised("KeyError", "bbox", 0)
        ELSE merge_assemble(NewEOPatch(DictGet(eopatch_content.items, <<"bbox", NoName>>)),
                            eopatch_content.items, 1))

(***************************************************************************)
(* SpecMerge: one or two EOPatches, each made with a bbox or without and   *)
(* given up to MaxFrames time frames (its timestamps and the slices of     *)
(* its entry data["a"]), are merged.                                       *)
(***************************************************************************)
Times == {1, 2}

\* Two slices of one position each.
Slices == {<<Num(0, 1)>>, <<Num(1, 1)>>}

BBoxes == {None, BBox(1), BBox(2)}

TimeDependentOps == {"None", "concatenate", "min", "max", "mean", "median"}

RECURSIVE SeqsUpTo(_, _)
SeqsUpTo(S, n) ==
    IF n = 0
    THEN {<<>>}
    ELSE LET shorter == SeqsUpTo(S, n - 1)
         IN  shorter \cup {Append(q, x) : q \in {r \in shorter : Len(r) = n - 1}, x \in S}

FrameInputs == SeqsUpTo({Frame(t, slice) : t \in Times, slice \in Slices}, MaxFrames)

\* EOPatch(bbox=bbox), eopatch.timestamps = [...], eopatch.data["a"] = array
BuildEOPatch(bbox, frames, id) ==
    LET made == NewEOPatch(bbox)
        timed == EOPatch_setattr(made, "timestamps",
                                 List([k \in 1 .. Len(frames) |-> frames[k].t]), 0).self
    IN  EOPatch_setitem(timed, <<>>, "data", <<"a">>,
                        TimeArray(id, ndim("data"), "float64",
                                  [k \in 1 .. Len(frames) |-> frames[k].slice]),
                        TRUE, 0).self

MergeInputs == {BuildEOPatch(bbox, frames, NewId(0)) : bbox \in BBoxes, frames \in FrameInputs}

InitMerge ==
    /\ merge_in \in {<<a>> : a \in MergeInputs} \cup {<<a, b>> : a \in MergeInputs, b \in MergeInputs}
    /\ merge_op \in TimeDependentOps
    /\ merge_out = NoMerge
    /\ patches = <<>>
    /\ heap = <<>>
    /\ nextId = 0
    /\ last = Idle
    /\ fdict = None
    /\ slot_calls = [name \in GetNames |-> 0]
    /\ executor = NoExecutor

\* merge_in[1].merge(*others, time_dependent_op=merge_op)
Merge ==
    /\ merge_out = NoMerge
    /\ merge_out' = EOPatch_merge(merge_in, merge_op)
    /\ UNCHANGED <<fdict, heap, nextId, last, slot_calls, patches, merge_in, merge_op, executor>>

NextMerge == Merge

SpecMerge == InitMerge /\ [][NextMerge]_vars

MergeTypeOK == merge_out.exc \in {"idle", "none", "ValueError", "KeyError"}

(***************************************************************************)
(* Claims about merges (checked under SpecMerge).  The merge has been      *)
(* made when merge_out.exc is not "idle"; merge_out.value is the merged    *)
(* container when merge_out.exc = "none".                                  *)
(***************************************************************************)
Merged == merge_out.exc # "idle"

HasEntry(eopatch) == DictHas(eopatch["data"].items, <<"a">>)

EntryOf(eopatch) == DictGet(eopatch["data"].items, <<"a">>)

\* Equal by value: the same array but for its identity.
SameValue(v, w) == [v EXCEPT !.id = w.id] = w

\* The frames of an input: its timestamps paired with its slices.
InputFrames(i) ==
    [k \in 1 .. Len(EntryOf(merge_in[i]).slices) |->
        Frame(merge_in[i]["timestamps"].items[k], EntryOf(merge_in[i]).slices[k])]

InputTimes(i) ==
    {merge_in[i]["timestamps"].items[k] : k \in 1 .. Len(merge_in[i]["timestamps"].items)}

Count(seq, x) == Cardinality({k \in 1 .. Len(seq) : seq[k] = x})

\* The containers are equal on every feature.
EqualOnEveryFeature(a, b) ==
    /\ a["bbox"] = b["bbox"]
    /\ a["timestamps"] = b["timestamps"]
    /\ \A ft \in DictFeatureTypes :
           /\ DictNames(a[ft].items) = DictNames(b[ft].items)
           /\ \A name \in DictNames(a[ft].items) :
                  SameValue(DictGet(a[ft].items, name), DictGet(b[ft].items, name))

Agree(i, j) ==
    \A k \in 1 .. Len(InputFrames(i)), l \in 1 .. Len(InputFrames(j)) :
        InputFrames(i)[k].t = InputFrames(j)[l].t
            => InputFrames(i)[k].slice = InputFrames(j)[l].slice

Inputs == 1 .. Len(merge_in)

SharedAgree == \A i \in Inputs, j \in Inputs : i # j => Agree(i, j)

AllAgree == \A i \in Inputs, j \in Inputs : Agree(i, j)

AllTimes == UNION {InputTimes(i) : i \in Inputs}

\* The merged entry holds exactly one slice for every timestamp of the
\* inputs, in the order of the timestamps, and it is a slice that an input
\* has at that timestamp.
OnePerTimestamp ==
    LET out == EntryOf(merge_out.value).slices
    IN  /\ HasEntry(merge_out.value)
        /\ Len(out) = Cardinality(AllTimes)
        /\ \A k \in 1 .. Len(out) :
               \E t \in AllTimes :
                   /\ Cardinality({u \in AllTimes : u < t}) = k - 1
                   /\ \E i \in Inputs : Count(InputFrames(i), Frame(t, out[k])) > 0

\* The inputs have one and the same box.
OneBox == \A i \in Inputs : merge_in[i]["bbox"] = BBox(1)

OutFrames ==
    [k \in 1 .. Len(EntryOf(merge_out.value).slices) |->
        Frame(merge_out.value["timestamps"].items[k], EntryOf(merge_out.value).slices[k])]

\* C10: merging two containers whose timestamp sequences are disjoint, for
\* a temporal array entry present in both, with time_policy Concatenate
\* yields an entry whose time axis is as long as the two inputs' together,
\* that contains every slice of the inputs, ordered by timestamp.  Inputs
\* that have one and the same box are merged without an error, and whenever
\* the merge returns the entry is as stated.
C10_ConcatenateKeepsAll ==
    (/\ Merged /\ merge_op = "concatenate" /\ Len(merge_in) = 2
     /\ InputTimes(1) \cap InputTimes(2) = {}) =>
        /\ OneBox => merge_out.exc = "none"
        /\ merge_out.exc = "none" =>
               /\ HasEntry(merge_out.value)
               /\ Len(EntryOf(merge_out.value).slices)
                      = Len(InputFrames(1)) + Len(InputFrames(2))
               /\ Len(merge_out.value["timestamps"].items)
                      = Len(EntryOf(merge_out.value).slices)
               /\ \A t \in Times, slice \in Slices :
                      Count(OutFrames, Frame(t, slice))
                          = Count(InputFrames(1), Frame(t, slice))
                                + Count(InputFrames(2), Frame(t, slice))
               /\ \A k \in 1 .. Len(OutFrames) - 1 :
                      OutFrames[k].t <= OutFrames[k + 1].t

\* Two inputs of one box with disjoint timestamps, the second one's earlier
\* than the first one's, were concatenated.
C10_Witness ==
    /\ Merged /\ merge_op = "concatenate" /\ Len(merge_in) = 2
    /\ OneBox
    /\ InputTimes(1) = {2} /\ InputTimes(2) = {1}
    /\ merge_out.exc = "none"
    /\ Len(EntryOf(merge_out.value).slices) = 2 * MaxFrames

(***************************************************************************)
(* SpecReduce: one to three EOPatches of one bbox, each with one time      *)
(* frame whose slice holds a number or a missing value at each of its two  *)
(* positions, are merged under a statistic.                                *)
(***************************************************************************)
Statistics == {"min", "max", "mean", "median"}

Positions == {1, 2}

Elements == {NaN, Num(1, 1), Num(3, 1), Num(4, 1)}

ReduceSlices == {<<x, y>> : x \in Elements, y \in Elements}

ReduceInputs ==
    {BuildEOPatch(BBox(1), <<Frame(t, slice)>>, NewId(0)) : t \in Times, slice \in ReduceSlices}

InitReduce ==
    /\ merge_in \in {<<a>> : a \in ReduceInputs}
                        \cup {<<a, b>> : a \in ReduceInputs, b \in ReduceInputs}
                        \cup {<<a, b, c>> : a \in ReduceInputs, b \in ReduceInputs,
                                            c \in ReduceInputs}
    /\ merge_op \in Statistics
    /\ merge_out = NoMerge
    /\ patches = <<>>
    /\ heap = <<>>
    /\ nextId = 0
    /\ last = Idle
    /\ fdict = None
    /\ slot_calls = [name \in GetNames |-> 0]
    /\ executor = NoExecutor

SpecReduce == InitReduce /\ [][NextMerge]_vars

(***************************************************************************)
(* Claims about statistics (checked under SpecReduce).                     *)
(***************************************************************************)
\* The inputs whose frame is at timestamp t and has a number at position p.
Members(t, p) ==
    {i \in Inputs : InputFrames(i)[1].t = t /\ InputFrames(i)[1].slice[p] # NaN}

\* The number (an integer) that input i has at position p.
ValueAt(i, p) == InputFrames(i)[1].slice[p].num

RECURSIVE TotalUpTo(_, _, _)
TotalUpTo(k, t, p) ==
    IF k = 0
    THEN 0
    ELSE (IF k \in Members(t, p) THEN ValueAt(k, p) ELSE 0) + TotalUpTo(k - 1, t, p)

\* The slice that the merged entry holds for timestamp t: the slices are in
\* the order of the distinct timestamps.
OutSlice(t) ==
    EntryOf(merge_out.value).slices[Cardinality({u \in AllTimes : u < t}) + 1]

\* out is the statistic of the numbers of the members M at position p.
IsStatistic(operation, out, M, p) ==
    /\ out # NaN
    /\ out.den > 0
    /\ operation = "min" =>
           \E i \in M : out = Num(ValueAt(i, p), 1) /\ \A j \in M : ValueAt(i, p) <= ValueAt(j, p)
    /\ operation = "max" =>
           \E i \in M : out = Num(ValueAt(i, p), 1) /\ \A j \in M : ValueAt(i, p) >= ValueAt(j, p)
    /\ operation = "mean" =>
           out.num * Cardinality(M) = out.den * TotalUpTo(Len(merge_in), InputFrames(CHOOSE i \in M : TRUE)[1].t, p)
    /\ operation = "median" =>
           /\ 2 * Cardinality({j \in M : ValueAt(j, p) * out.den < out.num}) <= Cardinality(M)
           /\ 2 * Cardinality({j \in M : ValueAt(j, p) * out.den > out.num}) <= Cardinality(M)
           /\ Cardinality(M) % 2 = 1 => \E i \in M : out = Num(ValueAt(i, p), 1)
           /\ Cardinality(M) % 2 = 0 =>
                  \E i \in M, j \in M :
                      i # j /\ 2 * out.num = out.den * (ValueAt(i, p) + ValueAt(j, p))

\* C11: under time_policy Min, Max, Mean or Median the slices that share a
\* timestamp are combined element-wise with the missing values excluded:
\* each position of the result holds the statistic of the non-missing
\* inputs at that position, and a position that is missing in every member
\* of the group is missing in the result.
C11_StatisticExcludesMissing ==
    (Merged /\ merge_op \in Statistics) =>
        /\ merge_out.exc = "none"
        /\ HasEntry(merge_out.value)
        /\ Len(EntryOf(merge_out.value).slices) = Cardinality(AllTimes)
        /\ \A t \in AllTimes, p \in Positions :
               IF Members(t, p) = {}
               THEN OutSlice(t)[p] = NaN
               ELSE IsStatistic(merge_op, OutSlice(t)[p], Members(t, p), p)

\* The slices [1, missing] and [3, 4] at one timestamp were merged under
\* Mean into [2, 4].
C11_Witness ==
    /\ Merged /\ merge_op = "mean" /\ Len(merge_in) = 2
    /\ InputFrames(1)[1] = Frame(1, <<Num(1, 1), NaN>>)
    /\ InputFrames(2)[1] = Frame(1, <<Num(3, 1), Num(4, 1)>>)
    /\ merge_out.exc = "none"
    /\ EntryOf(merge_out.value).slices = <<<<Num(2, 1), Num(4, 1)>>>>

(***************************************************************************)
(* EOPatch.consolidate_timestamps.  The timestamps given are a set: the    *)
(* code only asks whether a date is among them.                            *)
(***************************************************************************)
\* list.index(x): the first place of x in the list.
list_index(list, x) ==
    CHOOSE i \in 1 .. Len(list) : list[i] = x /\ \A j \in 1 .. i - 1 : list[j] # x

\* remove_from_patch = set(self.timestamps).difference(timestamps)
remove_from_patch(own, timestamps) == {own[k] : k \in 1 .. Len(own)} \ timestamps

\* remove_from_patch_idxs
remove_from_patch_idxs(own, timestamps) ==
    {list_index(own, rm_date) : rm_date \in remove_from_patch(own, timestamps)}

\* good_timestamp_idxs
good_timestamp_idxs(own, timestamps) ==
    SelectSeq([k \in 1 .. Len(own) |-> k],
              LAMBDA idx : idx \notin remove_from_patch_idxs(own, timestamps))

\* good_timestamps
good_timestamps(own, timestamps) ==
    With(good_timestamp_idxs(own, timestamps), LAMBDA idxs :
        [k \in 1 .. Len(idxs) |-> own[idxs[k]]])

TakenId == <<"taken", 0>>

\* Indexing that leaves the array as it is.
take_frames_All(value, idxs) ==
    IF value.tag # "ndarray"
    THEN Raised("TypeError", "not_subscriptable", 0)
    ELSE Returned([value EXCEPT !.id = TakenId], 0)

\* value[good_timestamp_idxs, ...]: a new array of the slices at the
\* indices; an index beyond the time axis is an IndexError, and a value
\* that is no array (a FeatureIO, which the loop over items() does not
\* load) cannot be indexed so.
take_frames(value, idxs) ==
    IF value.tag # "ndarray"
    THEN Raised("TypeError", "not_subscriptable", 0)
    ELSE IF \E k \in 1 .. Len(idxs) : idxs[k] > Len(value.slices)
    THEN Raised("IndexError", "out_of_bounds", 0)
    ELSE Returned([value EXCEPT !.id = TakenId,
                                !.slices = [k \in 1 .. Len(idxs) |-> value.slices[idxs[k]]]],
                  0)

\* The feature types of the loop, in the order of the enumeration.
relevant_features ==
    SelectSeq(FeatureTypeOrder, LAMBDA ftype : is_temporal(ftype) /\ ~is_meta(ftype))

\* The inner loop: self[feature_type][feature_name] = value[idxs, ...] for
\* the items of the dictionary from the i-th on.
RECURSIVE consolidate_items(_, _, _, _)
consolidate_items(self, feature_type, i, idxs) ==
    IF i > Len(self[feature_type].items)
    THEN Returned(self, 0)
    ELSE With(take_frames(self[feature_type].items[i].value, idxs), LAMBDA taken :
        IF taken.exc # "none"
        THEN [taken EXCEPT !.value = self]
        ELSE With(EOPatch_setitem(self, <<>>, feature_type,
                                  self[feature_type].items[i].name, taken.value, TRUE, 0),
                  LAMBDA st :
            IF st.exc # "none"
            THEN Raised(st.exc, st.why, 0)
            ELSE consolidate_items(st.self, feature_type, i + 1, idxs)))

\* The outer loop, from the j-th relevant feature type on.
RECURSIVE consolidate_features(_, _, _)
consolidate_features(self, j, idxs) ==
    IF j > Len(relevant_features)
    THEN Returned(self, 0)
    ELSE With(consolidate_items(self, relevant_features[j], 1, idxs), LAMBDA done :
        IF done.exc # "none"
        THEN done
        ELSE consolidate_features(done.value, j + 1, idxs))

\* What consolidate_timestamps answers: the set removed and the container
\* as the call leaves it (an exception leaves what was done before it).
Consolidated(exc, why, removed, self) ==
    [exc |-> exc, why |-> why, removed |-> removed, self |-> self]

\* EOPatch.consolidate_timestamps(timestamps)
EOPatch_consolidate_timestamps(self, timestamps) ==
    With(consolidate_features(
             self, 1, good_timestamp_idxs(self["timestamps"].items, timestamps)),
         LAMBDA done :
        IF done.exc # "none"
        THEN Consolidated(done.exc, done.why, {}, done.value)
        ELSE With(EOPatch_setattr(
                      done.value, "timestamps",
                      List(good_timestamps(self["timestamps"].items, timestamps)), 0),
                  LAMBDA st :
            Consolidated(st.exc, st.why,
                         remove_from_patch(self["timestamps"].items, timestamps), st.self)))

(***************************************************************************)
(* SpecConsolidate: one EOPatch with up to MaxStamps timestamps (in any    *)
(* order, repeated or not), a temporal array data["a"] whose time axis     *)
(* has up to MaxStamps slices (slice k holds k), a timeless array, a       *)
(* metadata entry and a bbox, under consolidate_timestamps.                *)
(***************************************************************************)
Stamps == 1 .. MaxStamps

StampLists == SeqsUpTo(Stamps, MaxStamps)

BuildStamped(own, n) ==
    [NewEOPatch(BBox(1)) EXCEPT
        !["timestamps"] = List(own),
        !["data"].items = <<Item(<<"a">>, TimeArray(NewId(0), ndim("data"), "float64",
                                                     [k \in 1 .. n |-> k]))>>,
        !["data_timeless"].items =
            <<Item(<<"a">>, ndarray(NewId(1), ndim("data_timeless"), "float64"))>>,
        !["meta_info"].items = <<Item(<<"a">>, Blob(NewId(2)))>>]

InitConsolidate ==
    /\ patches \in {<<BuildStamped(own, n)>> : own \in StampLists, n \in 0 .. MaxStamps}
    /\ heap = <<>>
    /\ nextId = 0
    /\ last = Idle
    /\ fdict = None
    /\ slot_calls = [name \in GetNames |-> 0]
    /\ merge_in = <<>>
    /\ merge_op = "None"
    /\ merge_out = NoMerge
    /\ executor = NoExecutor

\* removed = eopatch.consolidate_timestamps(timestamps)
Consolidate ==
    \E timestamps \in SUBSET Stamps :
    \E r \in {EOPatch_consolidate_timestamps(patches[1], timestamps)} :
        /\ patches' = <<r.self>>
        /\ last' = Last("consolidate", <<>>, timestamps, FALSE, r.exc, r.why, r.removed, 0)
        /\ UNCHANGED <<fdict, heap, nextId, slot_calls, merge_in, merge_op, merge_out, executor>>

NextConsolidate == Consolidate

SpecConsolidate == InitConsolidate /\ [][NextConsolidate]_vars

ConsolidateTypeOK == last.exc \in {"none", "IndexError"}

(***************************************************************************)
(* Claims about consolidate_timestamps (checked under SpecConsolidate).    *)
(* A step that ends with last.op = "consolidate" is a call on patches[1]   *)
(* with the timestamps last'.arg; the unprimed variables are the container *)
(* before the call.                                                        *)
(***************************************************************************)
OwnTimestamps == patches[1]["timestamps"].items

TemporalEntry(eopatch) == DictGet(eopatch["data"].items, <<"a">>)

\* The own timestamps are pairwise distinct and the time axis of the
\* temporal array is as long as the timestamp sequence.
WellFormed ==
    /\ \A i \in 1 .. Len(OwnTimestamps), j \in 1 .. Len(OwnTimestamps) :
           i # j => OwnTimestamps[i] # OwnTimestamps[j]
    /\ Len(TemporalEntry(patches[1]).slices) = Len(OwnTimestamps)

\* The indices of the own timestamps that are among the valid ones.
KeptIndices(valid) ==
    SelectSeq([k \in 1 .. Len(OwnTimestamps) |-> k], LAMBDA k : OwnTimestamps[k] \in valid)

\* C12: for a container whose own timestamps are pairwise distinct and
\* whose temporal array has a time axis as long as the timestamp sequence,
\* consolidate(valid) returns exactly the set of the own timestamps that
\* are not in valid, leaves the timestamp sequence equal to the own
\* timestamps that are in valid, in their order, and leaves the temporal
\* array with exactly the slices at the kept indices, in their order; the
\* timeless entries, the metadata and the box are unchanged.
C12_ConsolidateKeepsValid ==
    [][(last'.op = "consolidate" /\ WellFormed) =>
          /\ last'.exc = "none"
          /\ last'.ret = {OwnTimestamps[k] : k \in 1 .. Len(OwnTimestamps)} \ last'.arg
          /\ patches'[1]["timestamps"] =
                 List([k \in 1 .. Len(KeptIndices(last'.arg)) |->
                          OwnTimestamps[KeptIndices(last'.arg)[k]]])
          /\ DictNames(patches'[1]["data"].items) = {<<"a">>}
          /\ TemporalEntry(patches'[1]).slices =
                 [k \in 1 .. Len(KeptIndices(last'.arg)) |->
                     TemporalEntry(patches[1]).slices[KeptIndices(last'.arg)[k]]]
          /\ TemporalEntry(patches'[1]).ndim = TemporalEntry(patches[1]).ndim
          /\ TemporalEntry(patches'[1]).dtype = TemporalEntry(patches[1]).dtype
          /\ \A ft \in FeatureType \ {"timestamps", "data"} :
                 patches'[1][ft] = patches[1][ft]]_vars

\* The container with the timestamps [1, 2, 3], consolidated against
\* {1, 3}, has lost the slice of 2, and {2} was returned.
C12_Witness ==
    /\ last.op = "consolidate" /\ last.exc = "none"
    /\ last.arg = {1, 3}
    /\ last.ret = {2}
    /\ patches[1]["timestamps"] = List(<<1, 3>>)
    /\ TemporalEntry(patches[1]).slices = <<1, 3>>

\* C13: consolidate_timestamps(timestamps) removes all frames with a date
\* that is not in the list given: after it returns, on any container (one
\* whose own timestamps repeat included), every timestamp that remains in
\* the sequence is in the list, and no timestamp of the returned set occurs
\* in the sequence any more.
C13_NoInvalidFrameRemains ==
    (last.op = "consolidate" /\ last.exc = "none") =>
        /\ \A k \in 1 .. Len(OwnTimestamps) : OwnTimestamps[k] \in last.arg
        /\ \A k \in 1 .. Len(OwnTimestamps) : OwnTimestamps[k] \notin last.ret

(***************************************************************************)
(* Claims about the box and the timestamps of a merge (checked under       *)
(* SpecMerge).                                                             *)
(***************************************************************************)
\* The boxes that the inputs have.
InputBoxes == {merge_in[i]["bbox"] : i \in Inputs} \ {None}

\* C14: merge fails with ValueError whenever two input containers have
\* non-absent spatial boxes that are not value-equal; when all non-absent
\* input boxes are equal, the result's box is that common box.
C14_BoxMismatchIsValueError ==
    Merged =>
        /\ Cardinality(InputBoxes) > 1 => merge_out.exc = "ValueError"
        /\ (Cardinality(InputBoxes) = 1 /\ merge_op = "concatenate") => merge_out.exc = "none"
        /\ (Cardinality(InputBoxes) = 1 /\ merge_out.exc = "none") =>
               merge_out.value["bbox"] \in InputBoxes

\* Two inputs with different boxes were given to a merge that keeps all
\* slices, and the merge failed with ValueError.
C14_Witness ==
    /\ Merged /\ merge_op = "concatenate" /\ Len(merge_in) = 2
    /\ merge_in[1]["bbox"] = BBox(1) /\ merge_in[2]["bbox"] = BBox(2)
    /\ merge_out.exc = "ValueError"

RECURSIVE InputTimestampsFrom(_)
InputTimestampsFrom(i) ==
    IF i > Len(merge_in)
    THEN <<>>
    ELSE merge_in[i]["timestamps"].items \o InputTimestampsFrom(i + 1)

\* C16: the merged container's timestamp sequence is the sorted union of
\* all input timestamp sequences with duplicates preserved: it is
\* nondecreasing and each timestamp occurs as many times as in all the
\* inputs together, for every time_policy.
C16_TimestampsSortedUnion ==
    (Merged /\ merge_out.exc = "none") =>
        LET out == merge_out.value["timestamps"].items
        IN  /\ \A k \in 1 .. Len(out) - 1 : out[k] <= out[k + 1]
            /\ \A t \in Times : Count(out, t) = Count(InputTimestampsFrom(1), t)

\* Two inputs that share a timestamp were merged under a statistic and the
\* timestamp is twice in the merged sequence.
C16_Witness ==
    /\ Merged /\ merge_op = "mean" /\ Len(merge_in) = 2
    /\ merge_in[1]["timestamps"].items = <<2, 1>>
    /\ merge_in[2]["timestamps"].items = <<1>>
    /\ merge_out.exc = "none"
    /\ merge_out.value["timestamps"].items = <<1, 1, 2>>

(***************************************************************************)
(* EOPatch.__delitem__ and reset_feature_type.                             *)
(***************************************************************************)
\* reset_feature_type that resets the timestamps along with the attribute.
EOPatch_reset_feature_type_WithTimestamps(self, hp, feature_type, nid) ==
    IF feature_type = "bbox"
    THEN GetResult("ValueError", "bbox_undefined", None, self, hp, nid, 0)
    ELSE GetResult("none", "", None,
                   [self EXCEPT ![feature_type] =
                                    IF feature_type = "timestamps"
                                    THEN List(<<>>)
                                    ELSE create_feature_dict(feature_type),
                                !["timestamps"] = List(<<>>)],
                   hp, nid, 0)

\* EOPatch.reset_feature_type(feature_type), which is also the second half
\* of __delitem__: the bbox is never reset, the timestamps become [] and
\* any other attribute becomes {} (both through __setitem__).
EOPatch_reset_feature_type(self, hp, feature_type, nid) ==
    IF feature_type = "bbox"
    THEN GetResult("ValueError", "bbox_undefined", None, self, hp, nid, 0)
    ELSE With(EOPatch_setattr(self, feature_type,
                              IF feature_type = "timestamps"
                              THEN List(<<>>)
                              ELSE Mapping(<<>>), nid), LAMBDA st :
        GetResult(st.exc, st.why, None, st.self, hp, st.nid, 0))

\* __delitem__ that sets the bbox to None instead of refusing.
EOPatch_delitem_ClearsBox(self, hp, feature_type, is_tuple, feature_name, store_ok, nid) ==
    IF feature_type = "bbox"
    THEN GetResult("none", "", None, [self EXCEPT !["bbox"] = None], hp, nid, 0)
    ELSE EOPatch_reset_feature_type(self, hp, feature_type, nid)

\* EOPatch.__delitem__(feature): a (feature_type, feature_name) pair of an
\* entry kind is del self[feature_type][feature_name], where
\* self[feature_type] loads an attribute that is a FeatureIO and the
\* deletion is the one of dict (KeyError for a missing name); a pair of
\* the bbox or the timestamps is taken for the feature type alone.
EOPatch_delitem(self, hp, feature_type, is_tuple, feature_name, store_ok, nid) ==
    IF is_tuple /\ feature_type \notin {"bbox", "timestamps"}
    THEN With(EOPatch_getattribute(self, hp, feature_type, store_ok, nid), LAMBDA ga :
        IF ga.exc # "none"
        THEN ga
        ELSE IF ~DictHas(ga.value.items, feature_name)
        THEN GetResult("KeyError", "missing", None, ga.self, ga.heap, ga.nid, ga.called)
        ELSE GetResult("none", "", None,
                       [ga.self EXCEPT ![feature_type].items = DictDel(@, feature_name)],
                       ga.heap, ga.nid, ga.called))
    ELSE EOPatch_reset_feature_type(self, hp, feature_type, nid)

(***************************************************************************)
(* SpecAddress: one EOPatch (patches[1]), made with a bbox or without,     *)
(* under assignments of entries (realized or FeatureIO), of attributes     *)
(* that are a FeatureIO as EOPatch.load assigns them, deletions, resets,   *)
(* and reads and writes of the bbox and the timestamps under a             *)
(* (feature type, name) key.  last.arg is the key.                         *)
(***************************************************************************)
AddressNames == {<<"a">>, <<"b">>}

ScalarFeatureTypes == {"bbox", "timestamps"}

DeletedFeatureTypes == PatchFeatureTypes \cup ScalarFeatureTypes

Key(feature_type, is_tuple) == [feature_type |-> feature_type, is_tuple |-> is_tuple]

\* The effect of an operation on patches[1]; the counters of the heap count
\* the collaborator calls of the operation at hand.
DoAddress(op, feature_type, is_tuple, feature_name, r) ==
    /\ patches' = <<r.self>>
    /\ heap' = Uncounted(r.heap)
    /\ last' = Last(op, feature_name, Key(feature_type, is_tuple), TRUE, r.exc, r.why,
                    r.value, r.called)
    /\ UNCHANGED <<fdict, nextId, slot_calls, merge_in, merge_op, merge_out, executor>>

\* eopatch[ft, name] = value, of a realized value
AssignFeature ==
    \E ft \in PatchFeatureTypes, name \in AddressNames :
        DoAddress("set", ft, TRUE, name,
                  EOPatch_setitem(patches[1], heap, ft, name, PatchValue(ft), TRUE, 0))

\* eopatch[ft, name] = FeatureIO(...), of a new placeholder
AssignFeatureIO ==
    /\ Len(heap) < MaxIO
    /\ \E ft \in PatchFeatureTypes, name \in AddressNames :
           DoAddress("set", ft, TRUE, name,
                     EOPatch_setitem(patches[1],
                                     Append(heap, NewFeatureIO(Len(heap) + 1, PatchValue(ft))),
                                     ft, name, FeatureIORef(Len(heap) + 1), TRUE, 0))

\* eopatch.timestamps = FeatureIO(...), eopatch.meta_info = FeatureIO(...)
AssignAttributeIO ==
    /\ Len(heap) < MaxIO
    /\ \E ft \in LoadedFeatureTypes :
       \E st \in {EOPatch_setattr(patches[1], ft, FeatureIORef(Len(heap) + 1), 0)} :
           DoAddress("setattr", ft, FALSE, NoName,
                     GetResult(st.exc, st.why, None, st.self,
                               Append(heap, NewFeatureIO(Len(heap) + 1, StoredAttribute(ft))),
                               0, 0))

\* eopatch.timestamps = [1]
AssignTimestamps ==
    \E st \in {EOPatch_setattr(patches[1], "timestamps", List(<<1>>), 0)} :
        DoAddress("setattr", "timestamps", FALSE, NoName,
                  GetResult(st.exc, st.why, None, st.self, heap, 0, 0))

\* del eopatch[ft, name]
DeleteFeature ==
    \E ft \in DeletedFeatureTypes, name \in AddressNames, store_ok \in BOOLEAN :
        DoAddress("delete", ft, TRUE, name,
                  EOPatch_delitem(patches[1], heap, ft, TRUE, name, store_ok, 0))

\* del eopatch[ft]
DeleteFeatureType ==
    \E ft \in DeletedFeatureTypes :
        DoAddress("delete", ft, FALSE, NoName,
                  EOPatch_delitem(patches[1], heap, ft, FALSE, NoName, TRUE, 0))

\* eopatch.reset_feature_type(ft)
ResetFeatureType ==
    \E ft \in DeletedFeatureTypes :
        DoAddress("reset", ft, FALSE, NoName,
                  EOPatch_reset_feature_type(patches[1], heap, ft, 0))

\* eopatch[ft, name] of the bbox or the timestamps
GetScalarPair ==
    \E ft \in ScalarFeatureTypes, name \in PatchNames, store_ok \in BOOLEAN :
        DoAddress("get", ft, TRUE, name,
                  EOPatch_getitem(patches[1], heap, ft, name, store_ok, 0))

\* eopatch[ft, name] = value of the bbox or the timestamps; the value is
\* one that the attribute itself would take.
SetScalarPair ==
    \E ft \in ScalarFeatureTypes, name \in PatchNames, store_ok \in BOOLEAN :
        DoAddress("set", ft, TRUE, name,
                  EOPatch_setitem(patches[1], heap, ft, name,
                                  IF ft = "bbox" THEN BBox(2) ELSE List(<<2>>),
                                  store_ok, 0))

NextAddress ==
    \/ AssignFeature
    \/ AssignFeatureIO
    \/ AssignAttributeIO
    \/ AssignTimestamps
    \/ DeleteFeature
    \/ DeleteFeatureType
    \/ ResetFeatureType
    \/ GetScalarPair
    \/ SetScalarPair

SpecAddress == InitPatch /\ [][NextAddress]_vars

AddressTypeOK ==
    last.exc \in {"none", "ValueError", "KeyError", "TypeError", "OSError"}

(***************************************************************************)
(* Claims about deletions and keys (checked under SpecAddress).  A step    *)
(* that ends with last.op = op is that operation on patches[1] with the    *)
(* key last'.arg and the name last'.name; the unprimed variables are the   *)
(* container and the heap before it.                                       *)
(***************************************************************************)
Deletes == last'.op \in {"delete", "reset"}

DeletesPair(fts) ==
    last'.op = "delete" /\ last'.arg.is_tuple /\ last'.arg.feature_type \in fts

DeletesType(fts) ==
    Deletes /\ ~last'.arg.is_tuple /\ last'.arg.feature_type \in fts

\* Every attribute but the one addressed is as it was.
OthersUnchanged ==
    \A ft \in FeatureType \ {last'.arg.feature_type} : patches'[1][ft] = patches[1][ft]

\* No FeatureIO was loaded.
NothingLoaded == heap' = heap /\ last'.called = 0

\* C17: deleting the spatial-box kind, addressed either bare or as a
\* (BBOX, name) pair, always fails with ValueError and leaves the whole
\* container unchanged; no delete operation can turn a present box into an
\* absent one.
C17_BoxIsNeverDeleted ==
    [][Deletes =>
          /\ last'.arg.feature_type = "bbox" =>
                 /\ last'.exc = "ValueError"
                 /\ patches' = patches
                 /\ NothingLoaded
          /\ patches'[1]["bbox"] = patches[1]["bbox"]]_vars

\* del eopatch[BBOX, name] on a container with a bbox and an entry was
\* refused.
C17_Witness ==
    /\ last.op = "delete" /\ last.arg = Key("bbox", TRUE)
    /\ last.exc = "ValueError"
    /\ patches[1]["bbox"] = BBox(1)
    /\ patches[1]["data"].tag = "_FeatureDict" /\ patches[1]["data"].items # <<>>

\* C18 as stated: delete changes only its target: deleting (kind, name)
\* removes exactly that entry and leaves every other entry of that kind,
\* every other kind, the box and the timestamps unchanged, and does not
\* materialize any placeholder; deleting an entry kind empties only that
\* kind's collection; deleting the timestamp kind sets the timestamp
\* sequence to empty and leaves every entry unchanged.
C18_DeleteOnlyTarget ==
    [][/\ (DeletesPair(PatchFeatureTypes) /\ last'.exc = "none") =>
              /\ OthersUnchanged
              /\ NothingLoaded
              /\ patches[1][last'.arg.feature_type].tag = "_FeatureDict"
              /\ patches'[1][last'.arg.feature_type] =
                     [patches[1][last'.arg.feature_type] EXCEPT
                         !.items = DictDel(@, last'.name)]
       /\ DeletesType(PatchFeatureTypes) =>
              /\ last'.exc = "none"
              /\ OthersUnchanged
              /\ NothingLoaded
              /\ patches'[1][last'.arg.feature_type] =
                     create_feature_dict(last'.arg.feature_type)
       /\ (Deletes /\ last'.arg.feature_type = "timestamps") =>
              /\ last'.exc = "none"
              /\ OthersUnchanged
              /\ NothingLoaded
              /\ patches'[1]["timestamps"] = List(<<>>)]_vars

\* C18 (amended): as stated, but for a (kind, name) deletion in a kind
\* whose collection as a whole is an unresolved placeholder: the deletion
\* resolves that collection first (at most one collaborator call), and the
\* entry is deleted from the resolved collection; if the resolution or the
\* lookup of the name fails, nothing but that collection has changed.  The
\* placeholders of entries are never resolved.
C18_DeleteResolvesOnlyCollection ==
    [][/\ DeletesPair(PatchFeatureTypes) =>
              /\ OthersUnchanged
              /\ IF isFeatureIO(patches[1][last'.arg.feature_type])
                 THEN /\ last'.called <= 1
                      /\ \A k \in 1 .. Len(heap) :
                             k # patches[1][last'.arg.feature_type].ref => heap'[k] = heap[k]
                      /\ last'.exc = "none" =>
                             /\ patches'[1][last'.arg.feature_type].tag = "_FeatureDict"
                             /\ ~DictHas(patches'[1][last'.arg.feature_type].items,
                                         last'.name)
                 ELSE /\ NothingLoaded
                      /\ last'.exc \in {"none", "KeyError"}
                      /\ last'.exc = "KeyError" => patches' = patches
                      /\ last'.exc = "none" =>
                             patches'[1][last'.arg.feature_type] =
                                 [patches[1][last'.arg.feature_type] EXCEPT
                                     !.items = DictDel(@, last'.name)]
       /\ DeletesType(PatchFeatureTypes) =>
              /\ last'.exc = "none"
              /\ OthersUnchanged
              /\ NothingLoaded
              /\ patches'[1][last'.arg.feature_type] =
                     create_feature_dict(last'.arg.feature_type)
       /\ (Deletes /\ last'.arg.feature_type = "timestamps") =>
              /\ last'.exc = "none"
              /\ OthersUnchanged
              /\ NothingLoaded
              /\ patches'[1]["timestamps"] = List(<<>>)]_vars

\* data["a"] was deleted next to data["b"], which is still an unresolved
\* placeholder.
C18_Witness ==
    /\ last.op = "delete" /\ last.arg = Key("data", TRUE) /\ last.name = <<"a">>
    /\ last.exc = "none"
    /\ DictNames(patches[1]["data"].items) = {<<"b">>}
    /\ isFeatureIO(DictGet(patches[1]["data"].items, <<"b">>))
    /\ heap[DictGet(patches[1]["data"].items, <<"b">>).ref].loaded_value = None

Addresses(op) ==
    last'.op = op /\ last'.arg.is_tuple /\ last'.arg.feature_type \in ScalarFeatureTypes

\* C19 as stated: the two scalar kinds reject the pair form: reading or
\* writing the container with a key (BBOX, name) or (TIMESTAMPS, name),
\* where name is an actual entry name, is rejected with an error rather
\* than returning or changing the scalar value.
C19_ScalarPairRejected ==
    [][(Addresses("get") \/ Addresses("set")) =>
          /\ last'.exc # "none"
          /\ patches'[1][last'.arg.feature_type] = patches[1][last'.arg.feature_type]]_vars

\* C19 (amended): writing with such a key is rejected with TypeError and
\* never assigns the value; reading with such a key is not rejected: it
\* returns the scalar value, the name being ignored.  Neither changes the
\* container, except that a timestamp attribute that is an unresolved
\* placeholder is resolved first (and the failure of that is the error).
C19_ScalarPairWriteRejected ==
    [][/\ Addresses("set") =>
              /\ last'.exc \in {"TypeError", "OSError"}
              /\ patches'[1][last'.arg.feature_type] \notin {BBox(2), List(<<2>>)}
              /\ ~isFeatureIO(patches[1][last'.arg.feature_type]) =>
                     last'.exc = "TypeError" /\ patches' = patches /\ NothingLoaded
       /\ Addresses("get") =>
              /\ last'.exc \in {"none", "OSError"}
              /\ last'.exc = "none" => last'.ret = patches'[1][last'.arg.feature_type]
              /\ ~isFeatureIO(patches[1][last'.arg.feature_type]) =>
                     last'.exc = "none" /\ patches' = patches /\ NothingLoaded
       /\ (Addresses("get") \/ Addresses("set")) => OthersUnchanged]_vars

\* eopatch[BBOX, "a"] = value on a container with a bbox was refused.
C19_Witness ==
    /\ last.op = "set" /\ last.arg = Key("bbox", TRUE) /\ last.name = <<"a">>
    /\ last.exc = "TypeError"
    /\ patches[1]["bbox"] = BBox(1)

(***************************************************************************)
(* EOPatch.load with lazy_loading = False and                              *)
(* _trigger_loading_for_eopatch_features (SpecLoad).  patches[1] is the    *)
(* container that load has built from what the loader returned (the        *)
(* timestamps and meta_info attributes and the entries are FeatureIO       *)
(* objects; the bbox was read by __attrs_post_init__ in the constructor).  *)
(* executor holds the position of the calling thread (pc), the feature     *)
(* list it builds, its own attribute read (main), and the futures of the   *)
(* pool in submission order.  A future is the frame of its task: the       *)
(* feature it reads, where the read is (at), the object it holds (value)   *)
(* and the exception that ended it.  The threads interleave between the    *)
(* reads and writes of the container and the calls of FeatureIO.load; the  *)
(* pool starts any submitted task at any time.                             *)
(***************************************************************************)
Task(feature_type, feature_name, at, value, exc) ==
    [feature_type |-> feature_type, feature_name |-> feature_name, at |-> at,
     value |-> value, exc |-> exc]

\* A task that was submitted and has not started.
Pending(feature) == Task(feature[1], feature[2], "pending", None, "none")

\* The task has ended: it returned or raised, or it was cancelled.
done(future) == future.at \in {"done", "cancelled"}

Stepped(frame, self, hp, nid) == [frame |-> frame, self |-> self, heap |-> hp, nid |-> nid]

\* One step of eopatch[feature_type, feature_name] (__getattribute__ with
\* load = True, then _FeatureDict.__getitem__), from where the frame is:
\*   pending, getattr   value = super().__getattribute__(key), and
\*                      getattr(self, key) after the attribute was set
\*   load, setattr      value = value.load(); setattr(self, key, value)
\*   getitem            value = super().__getitem__(feature_name)
\*   item_load, item_set value = value.load(); self[feature_name] = value
step(frame, self, hp, store_ok, nid) ==
    With(frame.feature_type, LAMBDA key :
    CASE frame.at \in {"pending", "getattr"} ->
             IF isFeatureIO(self[key])
             THEN Stepped([frame EXCEPT !.at = "load", !.value = self[key]], self, hp, nid)
             ELSE IF frame.feature_name # NoName /\ self[key] # None
                                                 /\ self[key].tag = "_FeatureDict"
             THEN Stepped([frame EXCEPT !.at = "getitem", !.value = None], self, hp, nid)
             ELSE Stepped([frame EXCEPT !.at = "done", !.value = self[key]], self, hp, nid)
      [] frame.at \in {"load", "item_load"} ->
             With(FeatureIO_load(hp, frame.value.ref, store_ok), LAMBDA ld :
                 IF ld.exc # "none"
                 THEN Stepped([frame EXCEPT !.at = "done", !.value = None, !.exc = ld.exc],
                              self, ld.heap, nid)
                 ELSE Stepped([frame EXCEPT
                                  !.at = IF frame.at = "load" THEN "setattr" ELSE "item_set",
                                  !.value = ld.value],
                              self, ld.heap, nid))
      [] frame.at = "setattr" ->
             With(EOPatch_setattr(self, key, frame.value, nid), LAMBDA st :
                 IF st.exc # "none"
                 THEN Stepped([frame EXCEPT !.at = "done", !.value = None, !.exc = st.exc],
                              self, hp, st.nid)
                 ELSE Stepped([frame EXCEPT !.at = "getattr", !.value = None],
                              st.self, hp, st.nid))
      [] frame.at = "getitem" ->
             IF ~DictHas(self[key].items, frame.feature_name)
             THEN Stepped([frame EXCEPT !.at = "done", !.exc = "KeyError"], self, hp, nid)
             ELSE With(DictGet(self[key].items, frame.feature_name), LAMBDA value :
                 IF isFeatureIO(value)
                 THEN Stepped([frame EXCEPT !.at = "item_load", !.value = value],
                              self, hp, nid)
                 ELSE Stepped([frame EXCEPT !.at = "done", !.value = value], self, hp, nid))
      [] frame.at = "item_set" ->
             With(FeatureDict_setitem(self[key], frame.feature_name, frame.value, nid),
                  LAMBDA st :
                 IF st.exc # "none"
                 THEN Stepped([frame EXCEPT !.at = "done", !.value = None, !.exc = st.exc],
                              self, hp, st.nid)
                 ELSE Stepped([frame EXCEPT !.at = "done"],
                              [self EXCEPT ![key] = st.self], hp, st.nid)))

\* Executor.shutdown(wait=True), which the with statement calls on exit,
\* that does not wait.
shutdown_wait_NoWait(futures) == TRUE

\* Executor.shutdown(wait=True): every task that was not cancelled has
\* ended.
shutdown_wait(futures) == \A i \in 1 .. Len(futures) : done(futures[i])

\* The futures after list(executor.map(...)) met an exception in the
\* future at position k: the tasks behind it that have not started are
\* cancelled.
cancel_from(futures, k) ==
    [i \in 1 .. Len(futures) |->
        IF i > k /\ futures[i].at = "pending"
        THEN [futures[i] EXCEPT !.at = "cancelled"]
        ELSE futures[i]]

\* The calling thread at a position of load.
Thread(pc, lazy_loading, features, main, futures, next, exc) ==
    [pc |-> pc, lazy_loading |-> lazy_loading, features |-> features, main |-> main,
     futures |-> futures, next |-> next, exc |-> exc]

NoTask == Task("bbox", NoName, "done", None, "none")

\* What the loader returned for the names of the data entries: nothing, an
\* array of the rank of the type, or one of a wrong rank.
LoadNames == {<<"a">>, <<"b">>}

LoadedEntries ==
    {<<>>,
     <<ndarray(NewId(0), ndim("data"), "float64")>>,
     <<ndarray(NewId(0), ndim("data") + 1, "float64")>>,
     <<ndarray(NewId(0), ndim("data"), "float64"), ndarray(NewId(0), ndim("data"), "float64")>>,
     <<ndarray(NewId(0), ndim("data"), "float64"),
       ndarray(NewId(0), ndim("data") + 1, "float64")>>}

LoadName(i) == IF i = 1 THEN <<"a">> ELSE <<"b">>

\* The FeatureIO objects of a load: of the timestamps and of meta_info (if
\* the loader found them), then of the entries.
LoadHeap(has_timestamps, has_meta_info, entries) ==
    (IF has_timestamps THEN <<NewFeatureIO(1, StoredAttribute("timestamps"))>> ELSE <<>>)
    \o (IF has_meta_info THEN <<NewFeatureIO(1, StoredAttribute("meta_info"))>> ELSE <<>>)
    \o [i \in 1 .. Len(entries) |-> NewFeatureIO(1, entries[i])]

\* EOPatch.load up to the test of lazy_loading: the container with the
\* placeholders assigned.
LoadedEOPatch(bbox, has_timestamps, has_meta_info, entries) ==
    With((IF has_timestamps THEN 1 ELSE 0) + (IF has_meta_info THEN 1 ELSE 0),
         LAMBDA attributes :
        [NewEOPatch(bbox) EXCEPT
            !["timestamps"] = IF has_timestamps THEN FeatureIORef(1) ELSE @,
            !["meta_info"] = IF has_meta_info
                             THEN FeatureIORef(attributes)
                             ELSE @,
            !["data"] = [@ EXCEPT !.items =
                            [i \in 1 .. Len(entries) |->
                                Item(LoadName(i), FeatureIORef(attributes + i))]]])

InitLoad ==
    /\ \E bbox \in {None, BBox(1)}, has_timestamps \in BOOLEAN, has_meta_info \in BOOLEAN,
          entries \in LoadedEntries :
           /\ patches = <<LoadedEOPatch(bbox, has_timestamps, has_meta_info, entries)>>
           /\ heap = LoadHeap(has_timestamps, has_meta_info, entries)
    /\ executor \in {Thread("load", lazy_loading, <<>>, NoTask, <<>>, 1, "none") :
                        lazy_loading \in BOOLEAN}
    /\ nextId = 0
    /\ last = Idle
    /\ fdict = None
    /\ slot_calls = [name \in GetNames |-> 0]
    /\ merge_in = <<>>
    /\ merge_op = "None"
    /\ merge_out = NoMerge

\* if not lazy_loading: ... (skipped); return eopatch
ReturnLazy ==
    /\ executor.pc = "load" /\ executor.lazy_loading
    /\ executor' = [executor EXCEPT !.pc = "returned"]
    /\ UNCHANGED <<fdict, heap, nextId, last, slot_calls, patches, merge_in, merge_op,
                   merge_out>>

\* executor.submit(lambda: eopatch.bbox)
SubmitBBox ==
    /\ executor.pc = "load" /\ ~executor.lazy_loading
    /\ executor' = [executor EXCEPT !.pc = "submit_timestamps",
                                    !.futures = <<Pending(<<"bbox", NoName>>)>>]
    /\ UNCHANGED <<fdict, heap, nextId, last, slot_calls, patches, merge_in, merge_op,
                   merge_out>>

\* executor.submit(lambda: eopatch.timestamps)
SubmitTimestamps ==
    /\ executor.pc = "submit_timestamps"
    /\ executor' = [executor EXCEPT !.pc = "get_features",
                                    !.futures = Append(@, Pending(<<"timestamps", NoName>>))]
    /\ UNCHANGED <<fdict, heap, nextId, last, slot_calls, patches, merge_in, merge_op,
                   merge_out>>

\* eopatch.get_features(), in the calling thread, over the feature types
\* before bbox: self[feature_type] loads an attribute that is a FeatureIO
\* (no task reads these attributes yet).
GetFeatures ==
    /\ executor.pc = "get_features"
    /\ \E store_ok \in BOOLEAN :
       \E r \in {get_features_from(FeatureType \ {"bbox", "timestamps"}, patches[1], heap,
                                   1, <<>>, store_ok, 0)} :
           /\ patches' = <<r.self>>
           /\ heap' = r.heap
           /\ executor' = IF r.exc # "none"
                          THEN [executor EXCEPT !.pc = "shutdown", !.exc = r.exc]
                          ELSE [executor EXCEPT !.pc = "contains_bbox",
                                                !.features = r.features,
                                                !.main = Pending(<<"bbox", NoName>>)]
    /\ UNCHANGED <<fdict, nextId, last, slot_calls, merge_in, merge_op, merge_out>>

\* A step of self[feature_type] in `feature_type in self` of get_features,
\* for bbox and timestamps, which the submitted tasks read as well.
ContainsStep ==
    /\ executor.pc \in {"contains_bbox", "contains_timestamps"}
    /\ ~done(executor.main)
    /\ \E store_ok \in BOOLEAN :
       \E r \in {step(executor.main, patches[1], heap, store_ok, nextId)} :
           /\ patches' = <<r.self>>
           /\ heap' = r.heap
           /\ nextId' = r.nid
           /\ executor' = [executor EXCEPT !.main = r.frame]
    /\ UNCHANGED <<fdict, last, slot_calls, merge_in, merge_op, merge_out>>

\* if feature_type in self: feature_list.append((feature_type, None)); an
\* exception of the read leaves the with block.
Contains ==
    /\ executor.pc \in {"contains_bbox", "contains_timestamps"}
    /\ done(executor.main)
    /\ executor' =
           IF executor.main.exc # "none"
           THEN [executor EXCEPT !.pc = "shutdown", !.exc = executor.main.exc,
                                 !.main = NoTask]
           ELSE [executor EXCEPT
                    !.features = IF Truthy(executor.main.value)
                                 THEN Append(@, <<executor.main.feature_type, NoName>>)
                                 ELSE @,
                    !.pc = IF executor.pc = "contains_bbox"
                           THEN "contains_timestamps"
                           ELSE "map",
                    !.main = IF executor.pc = "contains_bbox"
                             THEN Pending(<<"timestamps", NoName>>)
                             ELSE NoTask]
    /\ UNCHANGED <<fdict, heap, nextId, last, slot_calls, patches, merge_in, merge_op,
                   merge_out>>

\* executor.map(lambda feature: eopatch[feature], features): a task is
\* submitted for every feature.
Map ==
    /\ executor.pc = "map"
    /\ executor' = [executor EXCEPT
                       !.pc = "results",
                       !.next = Len(executor.futures) + 1,
                       !.futures = @ \o [i \in 1 .. Len(executor.features) |->
                                            Pending(executor.features[i])]]
    /\ UNCHANGED <<fdict, heap, nextId, last, slot_calls, patches, merge_in, merge_op,
                   merge_out>>

\* A worker thread makes a step of a task.
Work ==
    \E i \in 1 .. Len(executor.futures), store_ok \in BOOLEAN :
        /\ ~done(executor.futures[i])
        /\ \E r \in {step(executor.futures[i], patches[1], heap, store_ok, nextId)} :
               /\ patches' = <<r.self>>
               /\ heap' = r.heap
               /\ nextId' = r.nid
               /\ executor' = [executor EXCEPT !.futures[i] = r.frame]
        /\ UNCHANGED <<fdict, last, slot_calls, merge_in, merge_op, merge_out>>

\* list(...) takes the result of the next future, which has ended
\* without an exception.
Result ==
    /\ executor.pc = "results"
    /\ executor.next <= Len(executor.futures)
    /\ executor.futures[executor.next].at = "done"
    /\ executor.futures[executor.next].exc = "none"
    /\ executor' = [executor EXCEPT !.next = @ + 1]
    /\ UNCHANGED <<fdict, heap, nextId, last, slot_calls, patches, merge_in, merge_op,
                   merge_out>>

\* list(...) takes the result of the next future, which has raised: the
\* futures behind it are cancelled and the exception leaves the with block.
ResultRaises ==
    /\ executor.pc = "results"
    /\ executor.next <= Len(executor.futures)
    /\ executor.futures[executor.next].at = "done"
    /\ executor.futures[executor.next].exc # "none"
    /\ executor' = [executor EXCEPT
                       !.pc = "shutdown",
                       !.exc = executor.futures[executor.next].exc,
                       !.futures = cancel_from(@, executor.next)]
    /\ UNCHANGED <<fdict, heap, nextId, last, slot_calls, patches, merge_in, merge_op,
                   merge_out>>

\* list(...) has taken every result: the with block ends.
ResultsEnd ==
    /\ executor.pc = "results"
    /\ executor.next > Len(executor.futures)
    /\ executor' = [executor EXCEPT !.pc = "shutdown"]
    /\ UNCHANGED <<fdict, heap, nextId, last, slot_calls, patches, merge_in, merge_op,
                   merge_out>>

\* The exit of the with statement: shutdown(wait=True), then load returns
\* the container or the exception goes on to the caller of load.
Shutdown ==
    /\ executor.pc = "shutdown"
    /\ shutdown_wait(executor.futures)
    /\ executor' = [executor EXCEPT
                       !.pc = IF executor.exc = "none" THEN "returned" ELSE "raised"]
    /\ UNCHANGED <<fdict, heap, nextId, last, slot_calls, patches, merge_in, merge_op,
                   merge_out>>

NextLoad ==
    \/ ReturnLazy
    \/ SubmitBBox
    \/ SubmitTimestamps
    \/ GetFeatures
    \/ ContainsStep
    \/ Contains
    \/ Map
    \/ Work
    \/ Result
    \/ ResultRaises
    \/ ResultsEnd
    \/ Shutdown

SpecLoad == InitLoad /\ [][NextLoad]_vars

\* The state of a load is of the expected shape.
LoadTypeOK ==
    /\ Len(patches) = 1
    /\ executor.pc \in {"load", "submit_timestamps", "get_features", "contains_bbox",
                        "contains_timestamps", "map", "results", "shutdown", "returned",
                        "raised"}
    /\ \A i \in 1 .. Len(executor.futures) :
           executor.futures[i].at \in {"pending", "getattr", "load", "setattr", "getitem",
                                       "item_load", "item_set", "done", "cancelled"}
    /\ executor.pc = "raised" => executor.exc # "none"

(***************************************************************************)
(* Claim about the eager load (checked under SpecLoad).                    *)
(***************************************************************************)
\* The container holds a FeatureIO in a slot: as an attribute or as an
\* entry of a dictionary.
HoldsPlaceholder(self) ==
    \E ft \in FeatureType :
        /\ self[ft] # None
        /\ \/ isFeatureIO(self[ft])
           \/ /\ self[ft].tag = "_FeatureDict"
              /\ \E i \in 1 .. Len(self[ft].items) : isFeatureIO(self[ft].items[i].value)

\* load(lazy_loading=False) has returned the container.
EagerReturned == executor.pc = "returned" /\ ~executor.lazy_loading

\* C20: eager full materialization is a barrier: a load with
\* lazy_loading = False returns normally only after the resolution of every
\* slot (box, timestamps and every entry) has completed: on normal return
\* every task of the pool has ended, none was cancelled or raised among
\* the tasks of the features, and no slot of the container holds an
\* unresolved placeholder, in every interleaving of the threads.
C20_EagerLoadIsBarrier ==
    EagerReturned =>
        /\ \A i \in 1 .. Len(executor.futures) : executor.futures[i].at = "done"
        /\ \A i \in 3 .. Len(executor.futures) : executor.futures[i].exc = "none"
        /\ ~HoldsPlaceholder(patches[1])
        /\ \A k \in 1 .. Len(heap) : heap[k].loaded_value # None

\* An eager load of timestamps, meta_info and two entries has returned.
C20_Witness ==
    /\ EagerReturned
    /\ Len(heap) = 4
    /\ Len(executor.futures) = 6
    /\ DictNames(patches[1]["data"].items) = LoadNames

(***************************************************************************)
(* Claim about a failing collaborator (checked under SpecPatch, where a    *)
(* get reads eopatch[ft, name]: the attribute, which load leaves as a      *)
(* FeatureIO for meta_info, and then the entry).                           *)
(***************************************************************************)
\* The FeatureIO objects that got their memo in the step.
Memoized ==
    {k \in 1 .. Len(heap) : heap[k].loaded_value = None /\ heap'[k].loaded_value # None}

\* The collaborator was invoked in the step and did not answer every time:
\* an answer is always memoized.
CollaboratorFailed == last'.called > Cardinality(Memoized)

\* C21: if the collaborator fails while a forcing read resolves a
\* placeholder, the failure propagates to the caller of that read at once
\* (the read raises OSError after that one call: no retry, not swallowed),
\* nothing is memoized, and the container is as before, so the slot still
\* holds the unresolved placeholder.
C21_FailurePropagates ==
    [][(last'.op = "get" /\ CollaboratorFailed) =>
          /\ last'.exc = "OSError"
          /\ last'.called = 1
          /\ Memoized = {}
          /\ patches'[1] = patches[1]
          /\ \A k \in 1 .. Len(heap) : heap'[k].loaded_value = heap[k].loaded_value]_vars

\* A get of a data entry has failed with OSError and the entry is still an
\* unresolved placeholder.
C21_Witness ==
    /\ last.op = "get" /\ last.exc = "OSError" /\ last.called = 1
    /\ DictHas(patches[1]["data"].items, <<"a">>)
    /\ Unresolved(heap, DictGet(patches[1]["data"].items, <<"a">>))

(***************************************************************************)
(* SpecValidate: one EOPatch with the timestamps [1] under every operation  *)
(* on the entries of a continuous and a discrete array kind:               *)
(* insertion of arrays that the kind accepts or refuses, insertion of      *)
(* placeholders whose stored array the kind accepts or refuses, reads      *)
(* with and without load, deletion, the two copies and                     *)
(* consolidate_timestamps.  last notes the operation, the feature and      *)
(* the check that raised.                                                  *)
(***************************************************************************)
ValidatedFeatureTypes == {"data", "mask"}

\* The arrays offered to the kind: an integer and a float array of its
\* rank and an array of a rank too many, with one slice along the first
\* axis.
Offered(ft) ==
    {TimeArray(NewId(0), ndim(ft), "int64", <<1>>),
     TimeArray(NewId(0), ndim(ft), "float64", <<1>>),
     TimeArray(NewId(0), ndim(ft) + 1, "int64", <<1>>)}

InitValidate ==
    /\ patches = <<[NewEOPatch(BBox(1)) EXCEPT !["timestamps"] = List(<<1>>)]>>
    /\ heap = <<>>
    /\ nextId = 0
    /\ last = Idle
    /\ fdict = None
    /\ slot_calls = [name \in GetNames |-> 0]
    /\ merge_in = <<>>
    /\ merge_op = "None"
    /\ merge_out = NoMerge
    /\ executor = NoExecutor

\* The effect of an operation: the containers and the heap it leaves.
DoValidate(op, ft, name, load, exc, why, called, containers, hp) ==
    /\ patches' = containers
    /\ heap' = Uncounted(hp)
    /\ last' = Last(op, name, Key(ft, TRUE), load, exc, why, None, called)
    /\ UNCHANGED <<fdict, nextId, slot_calls, merge_in, merge_op, merge_out, executor>>

\* eopatch[ft, name] = array
InsertArray ==
    \E ft \in ValidatedFeatureTypes, name \in PatchNames :
    \E value \in Offered(ft) :
    \E r \in {EOPatch_setitem(patches[1], heap, ft, name, value, TRUE, 0)} :
        DoValidate("insert", ft, name, FALSE, r.exc, r.why, r.called, <<r.self>>, r.heap)

\* eopatch[ft, name] = FeatureIO(...)
InsertFeatureIO ==
    /\ Len(heap) < MaxIO
    /\ \E ft \in ValidatedFeatureTypes, name \in PatchNames :
       \E stored \in Offered(ft) :
       \E r \in {EOPatch_setitem(patches[1],
                                 Append(heap, NewFeatureIO(Len(heap) + 1, stored)),
                                 ft, name, FeatureIORef(Len(heap) + 1), TRUE, 0)} :
           DoValidate("insert", ft, name, FALSE, r.exc, r.why, r.called, <<r.self>>, r.heap)

\* eopatch[ft, name]
ForcingGet ==
    \E ft \in ValidatedFeatureTypes, name \in PatchNames, store_ok \in BOOLEAN :
    \E r \in {EOPatch_getitem(patches[1], heap, ft, name, store_ok, 0)} :
        DoValidate("get", ft, name, TRUE, r.exc, r.why, r.called, <<r.self>>, r.heap)

\* eopatch[ft].__getitem__(name, load=False)
NonForcingGet ==
    \E ft \in ValidatedFeatureTypes, name \in PatchNames :
    \E r \in {FeatureDict_getitem(patches[1][ft], heap, name, FALSE, TRUE, 0)} :
        DoValidate("get", ft, name, FALSE, r.exc, r.why, r.called,
                   <<[patches[1] EXCEPT ![ft] = r.self]>>, r.heap)

\* del eopatch[ft, name]
DeleteEntry ==
    \E ft \in ValidatedFeatureTypes, name \in PatchNames :
    \E r \in {EOPatch_delitem(patches[1], heap, ft, TRUE, name, TRUE, 0)} :
        DoValidate("delete", ft, name, FALSE, r.exc, r.why, r.called, <<r.self>>, r.heap)

\* eopatch.copy() and eopatch.copy(deep=True): the copy is patches[2] until
\* the next operation.  The deep copies of a run make at most one FeatureIO
\* more than the caller may.
CopyAll ==
    \E deep \in BOOLEAN, store_ok \in BOOLEAN :
    \E r \in {IF deep
              THEN EOPatch_deepcopy(patches[1], heap, FeatureType, store_ok, 0)
              ELSE EOPatch_copy(patches[1], heap, FeatureType, store_ok, 0)} :
        /\ Len(r.heap) <= MaxIO + 1
        /\ DoValidate(IF deep THEN "deepcopy" ELSE "copy", "data", NoName, FALSE,
                      r.exc, r.why, r.called,
                      IF r.exc = "none" THEN <<r.self, r.new>> ELSE <<r.self>>, r.heap)

\* eopatch.consolidate_timestamps(timestamps)
ConsolidateAll ==
    \E timestamps \in SUBSET {1} :
    \E r \in {EOPatch_consolidate_timestamps(patches[1], timestamps)} :
        DoValidate("consolidate", "data", NoName, FALSE, r.exc, r.why, 0, <<r.self>>, heap)

NextValidate ==
    \/ InsertArray
    \/ InsertFeatureIO
    \/ ForcingGet
    \/ NonForcingGet
    \/ DeleteEntry
    \/ CopyAll
    \/ ConsolidateAll

SpecValidate == InitValidate /\ [][NextValidate]_vars

\* The exceptions the operations end in.
ValidateTypeOK ==
    last.exc \in {"none", "ValueError", "KeyError", "OSError", "TypeError", "IndexError"}

(***************************************************************************)
(* Claims about validation (checked under SpecValidate).                   *)
(***************************************************************************)
\* The ValueError of a check of _parse_feature_value or _check_feature_name.
ValidationError(l) ==
    /\ l.exc = "ValueError"
    /\ l.why \in {"not_ndarray", "ndim", "dtype", "not_geodataframe", "timestamp_column",
                  "illegal_char", "empty"}

\* The array is not one the kind accepts.
Refused(ft, value) ==
    \/ value.ndim # ndim(ft)
    \/ is_discrete(ft) /\ ~is_discrete_type(value.dtype)

\* The entry that the step addresses is, before the step, a placeholder
\* whose stored array the kind refuses.
AddressesRefusedPlaceholder ==
    /\ DictHas(patches[1][last'.arg.feature_type].items, last'.name)
    /\ isFeatureIO(DictGet(patches[1][last'.arg.feature_type].items, last'.name))
    /\ Refused(last'.arg.feature_type,
               heap[DictGet(patches[1][last'.arg.feature_type].items, last'.name).ref].stored)

C24_StoredArraysAreValid ==
    \A p \in 1 .. Len(patches) : \A ft \in ValidatedFeatureTypes :
        \A i \in 1 .. Len(patches[p][ft].items) :
            patches[p][ft].items[i].value.tag = "ndarray" =>
                ~Refused(ft, patches[p][ft].items[i].value)

\* A forcing get has resolved the placeholder of a mask entry, and the
\* array is in the dictionary.
C24_Witness ==
    /\ last.op = "get" /\ last.load /\ last.exc = "none" /\ last.called = 1
    /\ last.arg.feature_type = "mask"
    /\ DictGet(patches[1]["mask"].items, last.name).tag = "ndarray"
    /\ DictGet(patches[1]["mask"].items, last.name).id = LoadedId(1)

(***************************************************************************)
(* SpecAssign: one EOPatch under assignments to the attributes of its      *)
(* entry kinds: of a plain dict, of a _FeatureDict that the container      *)
(* holds (under the same or another kind), and of an entry.                *)
(***************************************************************************)
AssignedFeatureTypes == {"data", "mask", "meta_info"}

\* The plain dicts assigned: empty, or one float or integer array under a
\* name.
MappingInputs ==
    {<<>>,
     <<Item(<<"a">>, ndarray(NewId(0), ndim("data"), "float64"))>>,
     <<Item(<<"a">>, ndarray(NewId(0), ndim("data"), "int64"))>>}

\* eopatch[ft] = {...}
AssignMapping ==
    \E ft \in AssignedFeatureTypes, items \in MappingInputs :
    \E st \in {EOPatch_setattr(patches[1], ft, Mapping(items), 0)} :
        DoAddress("setattr", ft, FALSE, NoName,
                  GetResult(st.exc, st.why, Mapping(items), st.self, heap, 0, 0))

\* eopatch[ft] = eopatch[other]
AssignCollection ==
    \E ft \in AssignedFeatureTypes, other \in AssignedFeatureTypes :
    \E st \in {EOPatch_setattr(patches[1], ft, patches[1][other], 0)} :
        DoAddress("setattr", ft, FALSE, NoName,
                  GetResult(st.exc, st.why, patches[1][other], st.self, heap, 0, 0))

\* eopatch[ft, name] = array
AssignEntry ==
    \E ft \in AssignedFeatureTypes, name \in PatchNames, items \in MappingInputs \ {<<>>} :
        DoAddress("set", ft, TRUE, name,
                  EOPatch_setitem(patches[1], heap, ft, name, items[1].value, TRUE, 0))

NextAssign ==
    \/ AssignMapping
    \/ AssignCollection
    \/ AssignEntry

SpecAssign == InitPatch /\ [][NextAssign]_vars

\* C23: after any sequence of set operations on a container, the collection
\* stored under each entry kind is tagged with that same kind (a plain
\* mapping is wrapped into a fresh collection tagged with the kind, and an
\* existing typed collection is accepted only when it is already tagged
\* with the kind).
C23_CollectionTaggedWithItsKind ==
    \A ft \in AssignedFeatureTypes :
        /\ patches[1][ft].tag = "_FeatureDict"
        /\ patches[1][ft].feature_type = ft

\* C25: during eager full materialization of a container, the backing
\* store is invoked at most once for each memo slot (the box, the
\* timestamps and every (kind, name) entry), in every interleaving of the
\* worker-pool tasks with the calling thread that enumerates the
\* container's features.
C25_StoreInvokedOncePerSlot ==
    \A k \in 1 .. Len(heap) : heap[k].calls <= 1

(***************************************************************************)
(* An insertion and the rest of the dictionary (checked under SpecInsert). *)
(***************************************************************************)
\* The names of a dictionary, in their order.
NamesInOrder(items) == [i \in 1 .. Len(items) |-> items[i].name]

\* One more item at the end, under a name that was not held.
AppendedOne(before, after) ==
    /\ Len(after) = Len(before) + 1
    /\ SubSeq(after, 1, Len(before)) = before
    /\ ~DictHas(before, after[Len(after)].name)

\* The same names in the same order, and at most one value that differs.
ReplacedOne(before, after) ==
    /\ NamesInOrder(after) = NamesInOrder(before)
    /\ \E i \in 1 .. Len(before) :
           \A j \in 1 .. Len(before) : j # i => after[j] = before[j]

\* C26: an insert that fails validation (bad name, wrong rank, wrong dtype,
\* wrong sort of value) leaves the dictionary as it was: names, order and
\* values; a successful insert adds one item at the end or, under a name
\* that is held, replaces that name's value and nothing else.
C26_FailedInsertChangesNothing ==
    [][last'.op = "insert"
       => IF last'.exc # "none"
          THEN fdict' = fdict /\ heap' = heap
          ELSE /\ [fdict' EXCEPT !.items = fdict.items] = fdict
               /\ \/ AppendedOne(fdict.items, fdict'.items)
                  \/ ReplacedOne(fdict.items, fdict'.items)]_vars

\* C26's case: an insert was refused by a dictionary that holds two items.
C26_Witness ==
    /\ last.op = "insert"
    /\ last.exc = "ValueError"
    /\ Len(fdict.items) = 2

=============================================================================
